---------------------------- MODULE Spec2Model ----------------------------
(***************************************************************************)
(* Tree support of CuraEngine (src/src/TreeSupport.cpp, TreeSupport.h):    *)
(* the cached model volumes (cura::Tree::ModelVolumes), contact seeding    *)
(* (generateContactPoints) and the layer-by-layer dropper                  *)
(* (cura::Tree::TreeSupport::generateSupportAreas / processLayer).         *)
(*                                                                         *)
(* Geometry.  Every input is taken invariant along Y: a layer outline, an  *)
(* overhang area and the build plate are bands [a, b] x R and every point  *)
(* has Y = 0.  A polygon set is then a set of X intervals with integer     *)
(* end points, written as the set of the unit cells [c, c+1] it covers; a  *)
(* point is an integer X.  Offsets, unions, differences, inside tests and  *)
(* closest boundary points are exact on this family of inputs.             *)
(***************************************************************************)
EXTENDS Integers, Sequences, FiniteSets, TLC

(***************************************************************************)
(* Bounds of the model.                                                    *)
(***************************************************************************)
\* number of layers of the mesh (overhang_areas.size(), supportLayers.size())
NLayers == 4
\* the build plate is [0, MaxX]
MaxX == 16
\* width kept of the frame that is put around the build plate
Frame == 4

Layers == 0 .. (NLayers - 1)
Cells == (0 - Frame) .. (MaxX + Frame - 1)
Points == (0 - Frame) .. (MaxX + Frame)

Abs(x) == IF x < 0 THEN 0 - x ELSE x
Max(a, b) == IF a < b THEN b ELSE a
Min(a, b) == IF a < b THEN a ELSE b
SetMin(S) == CHOOSE x \in S : \A y \in S : x <= y
SetMax(S) == CHOOSE x \in S : \A y \in S : y <= x
\* C++ integer division truncates towards zero
TruncDiv(a, b) == IF a >= 0 THEN a \div b ELSE 0 - ((0 - a) \div b)

\* the cells of the interval [a, b]
Seg(a, b) == a .. (b - 1)

(***************************************************************************)
(* Polygons (utils/polygon.h, utils/polygonUtils.h), on cell sets.         *)
(***************************************************************************)
\* Polygons::inside(p, border_result = false)
InsideStrict(S, p) == (p - 1) \in S /\ p \in S
\* Polygons::inside(p, border_result = true)
InsideBorder(S, p) == (p - 1) \in S \/ p \in S
\* the points of the outline of S
Boundary(S) == { p \in Points : ((p - 1) \in S) # (p \in S) }
\* Polygons::unionPolygons(other)
UnionPolygons(S, T) == S \cup T
\* Polygons::difference(other)
Difference(S, T) == S \ T
\* Polygons::offset(d), round joins: grown by d (d >= 0) or inset by -d (d < 0)
Offset(S, d) ==
    IF d >= 0
    THEN { c \in Cells : \E s \in S : Abs(c - s) <= d }
    ELSE { c \in S : \A s \in Cells : Abs(c - s) <= 0 - d => s \in S }
\* Polygons::smooth(remove_length): drops segments shorter than remove_length
\* from an outline; a band has no such segment
Smooth(S) == S
\* Polygons::splitIntoParts(): the connected parts, by ascending X
PartOf(S, c) == { d \in S : \A e \in Min(c, d) .. Max(c, d) : e \in S }
RECURSIVE PartsFrom(_)
PartsFrom(S) ==
    IF S = {} THEN <<>>
    ELSE LET p == PartOf(S, SetMin(S)) IN <<p>> \o PartsFrom(S \ p)
SplitIntoParts(S) == PartsFrom(S)
\* PolygonUtils::findClosest(from, polygons).location: the closest point of the
\* outline, the first one found (lowest X) of two equally close ones
FindClosest(p, S) ==
    LET d == SetMin({ Abs(p - b) : b \in Boundary(S) })
    IN SetMin({ b \in Boundary(S) : Abs(p - b) = d })
\* the closest points of the outline, all of them
ClosestPoints(p, S) ==
    LET d == SetMin({ Abs(p - b) : b \in Boundary(S) })
    IN { b \in Boundary(S) : Abs(p - b) = d }
\* PolygonUtils::moveInside(polygon, from, distance = 0, max_dist2): a point
\* outside the polygon goes to the closest point of its outline when that is
\* closer than sqrt(max_dist2); a point inside stays
MoveInside(S, p, max_dist2) ==
    IF InsideBorder(S, p) \/ Boundary(S) = {} THEN p
    ELSE LET b == FindClosest(p, S)
         IN IF (p - b) * (p - b) < max_dist2 THEN b ELSE p
\* PolygonUtils::moveOutside(polygons, from, distance): from the closest point b
\* of the outline, distance further, away from the inside
MoveOutsideFrom(S, b, distance) ==
    IF b \in S THEN b - distance ELSE b + distance
\* vSize(p): the length of a vector
vSize(d) == Abs(d)
\* vSize2(p)
vSize2(d) == d * d
\* normal(p, len): p scaled to length len
Normal(d, len) ==
    IF vSize(d) < 1 THEN len ELSE TruncDiv(d * len, vSize(d))
\* AABB(polygon), expand(dist), contains(point)
AABBMin(S) == SetMin(S)
AABBMax(S) == SetMax(S) + 1
AABBContains(lo, hi, p) == lo <= p /\ p <= hi

(***************************************************************************)
(* State.                                                                  *)
(***************************************************************************)
VARIABLES
    settings,        \* the settings of the mesh group that TreeParams reads
    storage,         \* SliceDataStorage: layer outlines, overhang areas, bounds
    grid_points,     \* the result of generateContactSamplePoints(mesh)
    params_,         \* TreeSupport::params_ (ModelVolumes::params_ is a copy)
    volumes_,        \* TreeSupport::volumes_: the three caches of ModelVolumes
    nodes,           \* the heap of Tree::Node objects, by address
    next_node,       \* the address the next new Node gets
    model_contact,   \* generateSupportAreas: model_contact, from first on
    trees_,          \* TreeSupport::trees_; 0 is an empty (null) unique_ptr
    layer,           \* generateSupportAreas: the loop variable layer
    pl_layer,        \* processLayer: const auto layer = currentLayer()
    pc,              \* the statement the run is at; "undefined" once it read
                     \* through an empty unique_ptr or the front of an empty
                     \* vector, an access of address 0 that ends the process
    groups,          \* processLayer: the iterators groupNodes returned
    it_s,            \* processLayer: the index of the group being handled
    it,              \* processLayer: the iterator of the merge and move passes
    mst,             \* processLayer: the points of the MinimumSpanningTree
    threads,         \* for each thread inside ModelVolumes, its stack of calls
    moves,           \* the maximum move distance computed at each place
    contact_nodes,   \* cura::TreeSupport: contact_nodes, a set of Node* a layer
    layer_nr,        \* cura::TreeSupport::dropNodes: the layer being dropped
    nodes_per_part,  \* dropNodes: for each group a map from position to Node*
    group_index,     \* dropNodes: the group of the merge and move passes
    pending,         \* dropNodes: the entries a pass has not visited yet
    to_delete,       \* dropNodes: the nodes that are not dropped any further
    unsupported_branch_leaves,  \* dropNodes: the deque of branches to prune
    to_free_node_set,           \* dropNodes: the nodes to delete on return
    deleted,         \* the addresses delete has been called on
    generated,       \* storage.support.generated
    unsupported,     \* history: the leaves dropNodes found without support
    sizes,           \* the sizes and settings a loop under study is run with
    counter,         \* the loop variable of that loop
    visited,         \* history: the indices the loop has read, in order
    support,         \* storage.support: what drawCircles reads and writes
    lock,            \* the thread inside the critical section, or NULL
    workers          \* drawCircles: for each thread of the team, where it is

vars == << settings, storage, grid_points, params_, volumes_, nodes, next_node,
           model_contact, trees_, layer, pl_layer, pc, groups, it_s, it, mst,
           threads, moves, contact_nodes, layer_nr, nodes_per_part, group_index,
           pending, to_delete, unsupported_branch_leaves, to_free_node_set,
           deleted, generated, unsupported, sizes, counter, visited, support,
           lock, workers >>

\* the state the tree support run of Tree::TreeSupport never touches
\* the state of the older cura::TreeSupport
oldvars == << contact_nodes, layer_nr, nodes_per_part, group_index, pending,
              to_delete, unsupported_branch_leaves, to_free_node_set, deleted,
              generated, unsupported >>
\* the state before generateSupportAreas of cura::TreeSupport has run
OldIdle ==
    /\ contact_nodes = <<>>
    /\ layer_nr = 0
    /\ nodes_per_part = <<>>
    /\ group_index = 0
    /\ pending = {}
    /\ to_delete = {}
    /\ unsupported_branch_leaves = <<>>
    /\ to_free_node_set = {}
    /\ deleted = {}
    /\ generated = FALSE
    /\ unsupported = {}
\* the state of the loops that are studied on their own
aside == << sizes, counter, visited, support, lock, workers >>
AsideIdle ==
    /\ sizes = <<>>
    /\ counter = 0
    /\ visited = <<>>
    /\ support = <<>>
    /\ lock = 0
    /\ workers = <<>>
elsewhere == << threads, moves, oldvars, aside >>

\* the null pointer
NULL == 0

(***************************************************************************)
(* Inputs.                                                                 *)
(***************************************************************************)
\* support_tree_branch_diameter
BranchDiameters == {4}
\* layer_height
LayerHeights == {1, 2}
\* support_xy_distance
XYDistances == {1, 2}
\* support_tree_angle and support_tree_branch_diameter_angle, in degrees
SupportAngles == {45}
DiameterAngles == {45}
\* support_top_distance
TopDistances == {0}
\* support_type: ESupportType::EVERYWHERE or PLATFORM_ONLY
SupportTypes == {"EVERYWHERE", "PLATFORM_ONLY"}
\* the outline of the mesh on one layer
OutlineChoices == { {}, Seg(4, 12), Seg(4, 9) }
\* the overhang area of the mesh on one layer: part of the outline there
OverhangChoices == { {}, Seg(6, 10), Seg(6, 7), Seg(10, 11) }
\* the candidate points of the grid, all inside the bounding box of the mesh,
\* in the order generateContactSamplePoints pushes them
GridChoices == { <<6, 7, 10>>, <<6, 10>>, <<11>> }
\* mesh.bounding_box.flatten()
MeshBoundingBox == [min |-> 4, max |-> 12]

\* settings.get<AngleRadians>: degrees to radians, here in millionths
PiMicro == 3141593
AngleRadians(degrees) == (degrees * PiMicro) \div 180
TAU == 2 * PiMicro
\* std::numeric_limits<coord_t>::max(), scaled to the integers of the model
CoordMax == 2147483647
\* (coord_t)(std::tan(angle) * layer_height) for the angles of the model; the
\* tangent of the double nearest to a quarter turn is finite, about 1.6e16,
\* and CoordMax / 564 is that number on the scale of CoordMax
TanTimes(angle, h) ==
    CASE angle = 0 -> 0
      [] angle = 45 -> h
      [] angle = 90 -> (CoordMax \div 564) * h

SettingsSet ==
    [ support_tree_branch_diameter : BranchDiameters,
      layer_height : LayerHeights,
      support_xy_distance : XYDistances,
      support_tree_angle : SupportAngles,
      support_tree_branch_diameter_angle : DiameterAngles,
      support_top_distance : TopDistances,
      support_type : SupportTypes ]

\* the overhang of a layer is part of its outline and clear of the outline of
\* the layer below; the two lowest layers of the model have none
StorageSet ==
    { s \in [ layer_outlines : [Layers -> OutlineChoices],
              overhang_areas : [Layers -> OverhangChoices] ] :
        \A z \in Layers :
            /\ s.overhang_areas[z] \subseteq s.layer_outlines[z]
            /\ (z > 0 => s.overhang_areas[z] \cap s.layer_outlines[z - 1] = {})
            /\ (z < 2 => s.overhang_areas[z] = {}) }

(***************************************************************************)
(* TreeParams::TreeParams(settings)                                        *)
(***************************************************************************)
\* support_angle < 90 compares the angle in radians with the number 90
MaxMoveOf(s) ==
    IF AngleRadians(s.support_tree_angle) < 90 * 1000000
    THEN TanTimes(s.support_tree_angle, s.layer_height)
    ELSE CoordMax
TreeParams(s) ==
    [ branch_radius |-> s.support_tree_branch_diameter \div 2,
      layer_height |-> s.layer_height,
      xy_distance |-> s.support_xy_distance,
      support_angle |-> s.support_tree_angle,
      max_move |-> MaxMoveOf(s),
      radius_increment |-> TanTimes(s.support_tree_branch_diameter_angle, s.layer_height),
      z_gap |-> s.support_top_distance,
      can_support_on_model |-> (s.support_type = "EVERYWHERE") ]

(***************************************************************************)
(* calculate_machine_border and ModelVolumes                               *)
(***************************************************************************)
\* calculate_machine_border: the build plate [0, MaxX] (adhesion NONE, size 0),
\* framed: the frame around it is filled and the plate itself is free
MachineBorder ==
    LET actual_border == Offset(Seg(0, MaxX), 0)
    IN Difference(Offset(actual_border, Frame), actual_border)

EmptyVolumes ==
    [ collision_cache_ |-> <<>>, avoidance_cache_ |-> <<>>, internal_model_cache_ |-> <<>> ]

\* unordered_map::insert: an existing key keeps its value
Insert(m, k, v) == IF k \in DOMAIN m THEN m ELSE (k :> v) @@ m
\* unordered_map::operator[] followed by an assignment
Assign(m, k, v) == (k :> v) @@ m

\* the polygon ModelVolumes::collision computes on a miss
CollisionAreas(radius, z) ==
    Offset(UnionPolygons(storage.layer_outlines[z], MachineBorder),
           params_.xy_distance + radius)

\* ModelVolumes::collision(radius, layer): the caches after the call
Collision(vol, radius, z) ==
    IF <<radius, z>> \in DOMAIN vol.collision_cache_ THEN vol
    ELSE [vol EXCEPT !.collision_cache_ = Insert(@, <<radius, z>>, CollisionAreas(radius, z))]

\* a layer-0 miss that drops what the cache held
AvoidanceBaseAlone(cache, radius, areas) == (<<radius, 0>> :> areas)
\* ModelVolumes::avoidance, layer 0: avoidance_cache_[key] = collision(radius, 0)
AvoidanceBase(cache, radius, areas) == Assign(cache, <<radius, 0>>, areas)

\* every layer computed the way layer 0 is, without the layers below
AvoidanceDirect(vol, radius, z) ==
    IF <<radius, z>> \in DOMAIN vol.avoidance_cache_ THEN vol
    ELSE LET v1 == Collision(vol, radius, z)
         IN [v1 EXCEPT !.avoidance_cache_ =
                Assign(@, <<radius, z>>, v1.collision_cache_[<<radius, z>>])]
\* ModelVolumes::avoidance(radius, layer): the caches after the call
RECURSIVE Avoidance(_, _, _)
Avoidance(vol, radius, z) ==
    IF <<radius, z>> \in DOMAIN vol.avoidance_cache_ THEN vol
    ELSE IF z = 0
    THEN LET v1 == Collision(vol, radius, 0)
         IN [v1 EXCEPT !.avoidance_cache_ =
                AvoidanceBase(@, radius, v1.collision_cache_[<<radius, 0>>])]
    ELSE LET v1 == Avoidance(vol, radius, z - 1)
             inset == Smooth(Offset(v1.avoidance_cache_[<<radius, z - 1>>], 0 - params_.max_move))
             v2 == Collision(v1, radius, z)
             avoidance_areas == UnionPolygons(inset, v2.collision_cache_[<<radius, z>>])
         IN [v2 EXCEPT !.avoidance_cache_ = Insert(@, <<radius, z>>, avoidance_areas)]

\* ModelVolumes::internal_model(radius, layer): the caches after the call
InternalModel(vol, radius, z) ==
    IF <<radius, z>> \in DOMAIN vol.internal_model_cache_ THEN vol
    ELSE LET v1 == Avoidance(vol, radius, z)
             v2 == Collision(v1, radius, z)
             internal_areas == Difference(v2.avoidance_cache_[<<radius, z>>],
                                          v2.collision_cache_[<<radius, z>>])
         IN [v2 EXCEPT !.internal_model_cache_ = Insert(@, <<radius, z>>, internal_areas)]

\* the polygon a call returns
CollisionOf(vol, radius, z) == Collision(vol, radius, z).collision_cache_[<<radius, z>>]
AvoidanceOf(vol, radius, z) == Avoidance(vol, radius, z).avoidance_cache_[<<radius, z>>]
InternalModelOf(vol, radius, z) ==
    InternalModel(vol, radius, z).internal_model_cache_[<<radius, z>>]

(***************************************************************************)
(* Tree::Node                                                              *)
(***************************************************************************)
\* Node::Node(pos, radius, layer, children = {}, parent = nullptr)
Node(pos, radius, z, children) ==
    [ position_ |-> pos, radius_ |-> radius, layer_ |-> z,
      children_ |-> children, parent_ |-> NULL ]

\* the nodes a node owns, itself included: what ~Node() of a unique_ptr frees
RECURSIVE Owned(_, _)
Owned(heap, n) ==
    {n} \cup UNION { Owned(heap, heap[n].children_[i]) : i \in DOMAIN heap[n].children_ }
\* NodePtr::reset(): the node and all it owns are destroyed
Destroy(heap, n) == [ m \in (DOMAIN heap) \ Owned(heap, n) |-> heap[m] ]

\* Node::merge, the radius of this afterwards
MergeRadius(mine, others) == Max(mine, others)
\* Node::merge, the children of this afterwards
MergeChildren(mine, others) == mine \o others
\* Node::merge(std::unique_ptr<Node> other), other not null: this takes the
\* larger radius and the children of other; other is destroyed on return, its
\* children_ holding only moved-from pointers by then
Merge(heap, this, other) ==
    LET merged == [heap EXCEPT
            ![this].radius_ = MergeRadius(@, heap[other].radius_),
            ![this].children_ = MergeChildren(@, heap[other].children_)]
    IN [ m \in (DOMAIN heap) \ {other} |-> merged[m] ]

(***************************************************************************)
(* Tree::TreeSupport::generateContactPoints(mesh)                          *)
(***************************************************************************)
\* round_up_divide(a, b)
RoundUpDivide(a, b) == (a + b - 1) \div b
\* z_distance_top_layers
ZDistanceTopLayers == RoundUpDivide(params_.z_gap, params_.layer_height) + 1
\* half_overhang_distance
HalfOverhangDistance == TruncDiv(TanTimes(params_.support_angle, params_.layer_height), 2)
\* the layers layer_nr of the loop, overhang_areas.size() being NLayers
SeededLayers == { z \in 1 .. NLayers : z < NLayers - ZDistanceTopLayers }
\* the overhang parts that are seeded on layer z
OverhangParts(z) == SplitIntoParts(storage.overhang_areas[z + ZDistanceTopLayers])

\* the candidate after PolygonUtils::moveInside(overhang_part, candidate, 0, half^2)
MovedCandidate(part, candidate) ==
    MoveInside(part, candidate, HalfOverhangDistance * HalfOverhangDistance)
\* overhang_bounds.contains(candidate), overhang_bounds expanded by half_overhang_distance
InOverhangBounds(part, candidate) ==
    AABBContains(AABBMin(part) - HalfOverhangDistance,
                 AABBMax(part) + HalfOverhangDistance, candidate)
\* the test a grid candidate must pass to become a contact node
CandidateKept(part, moved, z) ==
    /\ InsideBorder(part, moved)
    /\ ~InsideBorder(CollisionOf(volumes_, 0, z), moved)
\* the nodes the grid gives for one overhang part, in the order of grid_points
RECURSIVE GridNodes(_, _, _)
GridNodes(part, z, i) ==
    IF i > Len(grid_points) THEN <<>>
    ELSE LET candidate == grid_points[i]
             moved == MovedCandidate(part, candidate)
         IN (IF InOverhangBounds(part, candidate) /\ CandidateKept(part, moved, z)
             THEN << Node(moved, params_.branch_radius, z, <<>>) >>
             ELSE <<>>) \o GridNodes(part, z, i + 1)
\* the node added when the grid gave none: the middle of the bounding box,
\* moved inside the part
FallbackNode(part, z) ==
    LET middle == (MeshBoundingBox.min + MeshBoundingBox.max) \div 2
    IN Node(MoveInside(part, middle, (MaxX + 2 * Frame) * (MaxX + 2 * Frame)),
            params_.branch_radius, z, <<>>)
\* seeding without the fallback node
FallbackNodesNone(part, z, added) == <<>>
\* if (!added) { ... }
FallbackNodes(part, z, added) == IF added THEN <<>> ELSE << FallbackNode(part, z) >>
\* the contact nodes of one overhang part
PartNodes(part, z) ==
    LET grid == GridNodes(part, z, 1)
    IN grid \o FallbackNodes(part, z, grid # <<>>)
RECURSIVE PartsNodes(_, _, _)
PartsNodes(parts, z, i) ==
    IF i > Len(parts) THEN <<>>
    ELSE PartNodes(parts[i], z) \o PartsNodes(parts, z, i + 1)
\* contact_points, layer after layer from layer 1 up
RECURSIVE ContactPointsFrom(_)
ContactPointsFrom(z) ==
    IF z \notin SeededLayers THEN <<>>
    ELSE PartsNodes(OverhangParts(z), z, 1) \o ContactPointsFrom(z + 1)
ContactPoints == ContactPointsFrom(1)

\* the layers for which volumes_.collision(0, layer_nr) is called: those with
\* a candidate that lies inside its overhang part
CollisionQueried ==
    { z \in SeededLayers :
        \E i \in DOMAIN OverhangParts(z), j \in DOMAIN grid_points :
            /\ InOverhangBounds(OverhangParts(z)[i], grid_points[j])
            /\ InsideBorder(OverhangParts(z)[i],
                            MovedCandidate(OverhangParts(z)[i], grid_points[j])) }
RECURSIVE CollisionAll(_, _)
CollisionAll(vol, Z) ==
    IF Z = {} THEN vol
    ELSE LET z == SetMin(Z) IN CollisionAll(Collision(vol, 0, z), Z \ {z})

(***************************************************************************)
(* Sequences and the algorithms of the standard library                    *)
(***************************************************************************)
\* the permutations of a finite set, as sequences
RECURSIVE Perms(_)
Perms(S) ==
    IF S = {} THEN { <<>> }
    ELSE UNION { { <<x>> \o q : q \in Perms(S \ {x}) } : x \in S }
\* the sequence without its empty pointers: erase(remove(begin, end, nullptr), end)
RECURSIVE EraseNull(_)
EraseNull(seq) ==
    IF seq = <<>> THEN <<>>
    ELSE (IF Head(seq) = NULL THEN <<>> ELSE <<Head(seq)>>) \o EraseNull(Tail(seq))
Swap(seq, i, j) == [seq EXCEPT ![i] = seq[j], ![j] = seq[i]]
\* a partition that moves nothing: the iterator returned is the end of the
\* run of elements at first that pred holds of
PartitionPrefix(seq, first, last, good) ==
    [ seq |-> seq,
      mid |-> SetMin({ i \in first .. last : i = last \/ seq[i] \notin good }) ]
\* std::partition(first, last, pred) of libstdc++ on the indices first .. last-1,
\* good being the elements pred holds of: the sequence and the iterator returned
RECURSIVE Partition(_, _, _, _)
Partition(seq, first, last, good) ==
    LET f == SetMin({ i \in first .. last : i = last \/ seq[i] \notin good })
    IN IF f = last THEN [seq |-> seq, mid |-> f]
       ELSE LET l == SetMax({ j \in f .. (last - 1) : j = f \/ seq[j] \in good })
            IN IF l = f THEN [seq |-> seq, mid |-> f]
               ELSE Partition(Swap(seq, f, l), f + 1, l, good)
\* std::upper_bound(first, end, layer, n->layer() < l) on model_contact, which
\* is sorted by descending layer: the number of elements before the iterator
UpperBound(seq, heap, l) ==
    SetMax({ k \in 0 .. Len(seq) : \A i \in 1 .. k : ~(heap[seq[i]].layer_ < l) })
\* std::sort(points, a->layer() > b->layer()): any order with descending layers
RECURSIVE SortedFrom(_, _)
SortedFrom(pts, z) ==
    IF z < 0 THEN { <<>> }
    ELSE { a \o b : a \in Perms({ i \in DOMAIN pts : pts[i].layer_ = z }),
                    b \in SortedFrom(pts, z - 1) }
SortedByLayer(pts) == SortedFrom(pts, NLayers)

(***************************************************************************)
(* MinimumSpanningTree (utils/MinimumSpanningTree.h) over points of a line *)
(***************************************************************************)
\* MinimumSpanningTree::adjacentNodes(p): on a line the tree joins each point
\* to the next one on either side
AdjacentNodes(M, p) ==
    LET lower == { q \in M : q < p }
        upper == { q \in M : q > p }
    IN (IF p \in M /\ lower # {} THEN << SetMax(lower) >> ELSE <<>>)
       \o (IF p \in M /\ upper # {} THEN << SetMin(upper) >> ELSE <<>>)

(***************************************************************************)
(* Tree::TreeSupport::generateSupportAreas                                 *)
(***************************************************************************)
Init ==
    /\ settings \in SettingsSet
    /\ storage \in StorageSet
    /\ grid_points \in GridChoices
    /\ params_ = TreeParams(settings)
    /\ volumes_ = EmptyVolumes
    /\ nodes = <<>>
    /\ next_node = 1
    /\ model_contact = <<>>
    /\ trees_ = <<>>
    /\ layer = 0
    /\ pl_layer = 0
    /\ pc = "generateContactPoints"
    /\ groups = <<>>
    /\ it_s = 0
    /\ it = 0
    /\ mst = {}
    /\ moves = <<>>
    /\ OldIdle
    /\ AsideIdle
    /\ threads = <<>>

inputs == << settings, storage, grid_points, params_ >>
loopvars == << groups, it_s, it, mst >>

\* auto model_contact = generateContactPoints(storage);
\* auto layer = model_contact.front()->layer();
\* front() of an empty vector is undefined
GenerateContactPoints ==
    /\ pc = "generateContactPoints"
    /\ LET pts == ContactPoints
       IN \E order \in SortedByLayer(pts) :
            /\ nodes' = [ i \in 1 .. Len(pts) |-> pts[i] ]
            /\ next_node' = Len(pts) + 1
            /\ model_contact' = order
            /\ volumes_' = CollisionAll(volumes_, CollisionQueried)
            /\ IF order = <<>>
               THEN pc' = "undefined" /\ layer' = layer
               ELSE pc' = "loop" /\ layer' = pts[order[1]].layer_
    /\ UNCHANGED << inputs, elsewhere, trees_, pl_layer, loopvars >>

\* for (; layer != 0; --layer): the new contact nodes of this layer go to trees_
\* and, trees_ not being empty, processLayer() is called
AddContactNodes ==
    /\ pc = "loop"
    /\ layer # 0
    /\ LET k == UpperBound(model_contact, nodes, layer)
           grown == trees_ \o SubSeq(model_contact, 1, k)
       IN /\ trees_' = grown
          /\ model_contact' = SubSeq(model_contact, k + 1, Len(model_contact))
          /\ IF Len(grown) # 0
             THEN pc' = "dropNodes" /\ layer' = layer
             ELSE pc' = "loop" /\ layer' = layer - 1
    /\ UNCHANGED << inputs, elsewhere, volumes_, nodes, next_node, pl_layer, loopvars >>

\* the loop ends and drawCircles(storage) is called
DrawCircles ==
    /\ pc = "loop"
    /\ layer = 0
    /\ pc' = "done"
    /\ UNCHANGED << inputs, elsewhere, volumes_, nodes, next_node, model_contact, trees_,
                    layer, pl_layer, loopvars >>

(***************************************************************************)
(* Tree::TreeSupport::dropNodes and currentLayer                           *)
(***************************************************************************)
\* a drop that thins the branch
DropRadiusThinner(radius) == radius - params_.radius_increment
\* const auto radius = node->radius() + params_.radius_increment
DropRadius(radius) == radius + params_.radius_increment
\* a drop that stays on the layer of the node
DropLayerSame(z) == z
\* const auto layer = node->layer() - 1
DropLayer(z) == z - 1
\* const auto pos = node->position()
DropPosition(pos) == pos

\* the index of a pointer in a vector of distinct pointers
IndexOf(seq, n) == CHOOSE i \in DOMAIN seq : seq[i] = n

\* currentLayer() reads trees_.front()->layer(); the assertions, when they are
\* compiled in, read every element of trees_
CurrentLayerDefined(trees, ndebug) ==
    /\ Len(trees) # 0
    /\ trees[1] # NULL
    /\ ndebug \/ \A i \in DOMAIN trees : trees[i] # NULL
\* the assertions of currentLayer
CurrentLayerAsserts(trees, heap) ==
    /\ Len(trees) # 0
    /\ \A i \in DOMAIN trees : heap[trees[i]].layer_ = heap[trees[1]].layer_
CurrentLayer(trees, heap) == heap[trees[1]].layer_

\* dropNodes(), then const auto layer = currentLayer()
DropNodes ==
    /\ pc = "dropNodes"
    /\ LET new(i) == next_node + i - 1
           dropped(i) == Node(DropPosition(nodes[trees_[i]].position_),
                              DropRadius(nodes[trees_[i]].radius_),
                              DropLayer(nodes[trees_[i]].layer_),
                              << trees_[i] >>)
           next_layer == [ i \in DOMAIN trees_ |-> new(i) ]
           heap == [ m \in (DOMAIN nodes) \cup { new(i) : i \in DOMAIN trees_ } |->
                       IF m \in DOMAIN nodes
                       THEN IF \E i \in DOMAIN trees_ : trees_[i] = m
                            THEN [nodes[m] EXCEPT !.parent_ = new(IndexOf(trees_, m))]
                            ELSE nodes[m]
                       ELSE dropped(m - next_node + 1) ]
       IN /\ nodes' = heap
          /\ trees_' = next_layer
          /\ next_node' = next_node + Len(trees_)
          /\ pl_layer' = CurrentLayer(next_layer, heap)
    /\ pc' = "removeUnsupportableByBuildPlate"
    /\ UNCHANGED << inputs, elsewhere, volumes_, model_contact, layer, loopvars >>

(***************************************************************************)
(* Tree::TreeSupport::removeUnsupportableByBuildPlate                      *)
(***************************************************************************)
\* the point is inside the area and the closest point of its outline is
\* further away than max_move
CannotEscape(area, pos) ==
    /\ InsideStrict(area, pos)
    /\ vSize(FindClosest(pos, area) - pos) > params_.max_move

\* the loop over trees_, from element i on.  Each turn calls currentLayer(),
\* which dereferences trees_.front(): undefined once that pointer was reset
RECURSIVE RemoveFrom(_, _, _, _, _)
RemoveFrom(i, trees, heap, vol, ndebug) ==
    IF i > Len(trees)
    THEN [ trees |-> trees, nodes |-> heap, volumes |-> vol, defined |-> TRUE ]
    ELSE IF ~CurrentLayerDefined(trees, ndebug)
    THEN [ trees |-> trees, nodes |-> heap, volumes |-> vol, defined |-> FALSE ]
    ELSE LET n == trees[i]
             v1 == Avoidance(vol, heap[n].radius_, CurrentLayer(trees, heap))
             area == v1.avoidance_cache_[<< heap[n].radius_, CurrentLayer(trees, heap) >>]
         IN IF CannotEscape(area, heap[n].position_)
            THEN RemoveFrom(i + 1, [trees EXCEPT ![i] = NULL], Destroy(heap, n), v1, ndebug)
            ELSE RemoveFrom(i + 1, trees, heap, v1, ndebug)

\* if (!params_.can_support_on_model) { removeUnsupportableByBuildPlate(); }
RemoveUnsupportableByBuildPlate ==
    /\ pc = "removeUnsupportableByBuildPlate"
    /\ IF params_.can_support_on_model
       THEN /\ pc' = "groupNodes"
            /\ UNCHANGED << volumes_, nodes, trees_ >>
       ELSE \E ndebug \in BOOLEAN :
              LET r == RemoveFrom(1, trees_, nodes, volumes_, ndebug)
              IN /\ volumes_' = r.volumes
                 /\ nodes' = r.nodes
                 /\ trees_' = IF r.defined THEN EraseNull(r.trees) ELSE r.trees
                 /\ pc' = IF r.defined THEN "groupNodes" ELSE "undefined"
    /\ UNCHANGED << inputs, elsewhere, next_node, model_contact, layer, pl_layer, loopvars >>

(***************************************************************************)
(* Tree::TreeSupport::groupNodes                                           *)
(***************************************************************************)
\* part_dist(part, node)
PartDist(part, pos) ==
    IF InsideStrict(part, pos) THEN 0
    ELSE vSize2(pos - FindClosest(pos, part))
\* std::min_element(parts.begin() + i, parts.end(), ...) gives part i
NearestIsPart(parts, i, pos) ==
    \A j \in (i + 1) .. Len(parts) : ~(PartDist(parts[j], pos) < PartDist(parts[i], pos))
\* the partitions of the loop over the parts, from part i on
RECURSIVE GroupParts(_, _, _, _, _)
GroupParts(seq, iters, parts, heap, i) ==
    IF i > Len(parts) THEN [ seq |-> seq, iters |-> iters ]
    ELSE LET good == { seq[k] : k \in { k \in DOMAIN seq :
                         NearestIsPart(parts, i, heap[seq[k]].position_) } }
             r == Partition(seq, iters[Len(iters)], Len(seq) + 1, good)
         IN GroupParts(r.seq, Append(iters, r.mid), parts, heap, i + 1)

\* const auto groups = groupNodes(); trees_ being empty, the assertion of
\* currentLayer() fails or, compiled out, the front of an empty vector is read
GroupNodes ==
    /\ pc = "groupNodes"
    /\ IF ~CurrentLayerDefined(trees_, TRUE)
       THEN /\ pc' = "undefined"
            /\ UNCHANGED << volumes_, trees_, groups, it_s >>
       ELSE LET z == CurrentLayer(trees_, nodes)
                v1 == Avoidance(volumes_, 0, z)
                area == v1.avoidance_cache_[<<0, z>>]
                parts == SplitIntoParts(area)
                outside == { trees_[k] : k \in { k \in DOMAIN trees_ :
                               ~InsideStrict(area, nodes[trees_[k]].position_) } }
                r0 == Partition(trees_, 1, Len(trees_) + 1, outside)
                r == GroupParts(r0.seq, <<1, r0.mid>>, parts, nodes, 1)
            IN /\ volumes_' = v1
               /\ trees_' = r.seq
               /\ groups' = Append(r.iters, Len(trees_) + 1)
               /\ it_s' = 1
               /\ pc' = "group"
    /\ UNCHANGED << inputs, elsewhere, nodes, next_node, model_contact, layer, pl_layer, it, mst >>

(***************************************************************************)
(* Tree::TreeSupport::processLayer: the loop over the groups               *)
(***************************************************************************)
GroupStart == groups[it_s]
GroupEnd == groups[it_s + 1]
combine_threshold == params_.max_move

\* the head of the loop over the groups: the spanning tree of the group, or,
\* after the last group, the removal of the empty pointers from trees_
BeginGroup ==
    /\ pc = "group"
    /\ it_s + 1 <= Len(groups)
    /\ mst' = { nodes[trees_[k]].position_ : k \in GroupStart .. (GroupEnd - 1) }
    /\ it' = GroupStart
    /\ pc' = "merge"
    /\ UNCHANGED << inputs, elsewhere, volumes_, nodes, next_node, model_contact, trees_,
                    layer, pl_layer, groups, it_s >>

\* trees_.erase(std::remove(trees_.begin(), trees_.end(), nullptr), trees_.end()),
\* processLayer returns and the loop of generateSupportAreas goes on: --layer
EraseMerged ==
    /\ pc = "group"
    /\ it_s + 1 > Len(groups)
    /\ trees_' = EraseNull(trees_)
    /\ layer' = layer - 1
    /\ pc' = "loop"
    /\ UNCHANGED << inputs, elsewhere, volumes_, nodes, next_node, model_contact, pl_layer,
                    loopvars >>

\* can_merge
CanMerge(a, b) == vSize(a - b) <= combine_threshold
\* is_neighbor
IsNeighbor(neighbors, pos) == \E i \in DOMAIN neighbors : neighbors[i] = pos
\* std::find_if(start, end, neighbors[0] == n->position()): the first index of
\* the group whose pointer is empty or whose node is at pos; GroupEnd if none
FindIf(pos) ==
    SetMin({ k \in GroupStart .. GroupEnd :
               \/ k = GroupEnd
               \/ trees_[k] = NULL
               \/ nodes[trees_[k]].position_ = pos })
\* current_node->merge(it + 1, merge_end): the nodes of seq merged one by one
RECURSIVE MergeAll(_, _, _)
MergeAll(heap, this, seq) ==
    IF seq = <<>> THEN heap
    ELSE MergeAll(Merge(heap, this, Head(seq)), this, Tail(seq))

\* the merge loop is over: the move loop starts
MergeDone ==
    /\ pc = "merge"
    /\ it = GroupEnd
    /\ it' = GroupStart
    /\ pc' = "move"
    /\ UNCHANGED << inputs, elsewhere, volumes_, nodes, next_node, model_contact, trees_,
                    layer, pl_layer, groups, it_s, mst >>

\* one turn of the merge loop, for the node at it
MergeNode ==
    /\ pc = "merge"
    /\ it # GroupEnd
    /\ LET current_node == trees_[it]
       IN IF current_node = NULL
          THEN \* current_node->position() of an empty pointer, line 990
               /\ pc' = "undefined"
               /\ UNCHANGED << nodes, trees_, it >>
          ELSE LET pos == nodes[current_node].position_
                   neighbors == AdjacentNodes(mst, pos)
               IN IF Len(neighbors) = 1
                  THEN IF CanMerge(pos, neighbors[1])
                       THEN LET k == FindIf(neighbors[1])
                            IN IF k > Len(trees_) \/ trees_[k] = NULL
                               THEN \* n->position() of an empty pointer, or *end
                                    /\ pc' = "undefined"
                                    /\ UNCHANGED << nodes, trees_, it >>
                               ELSE /\ nodes' = Merge(nodes, trees_[k], current_node)
                                    /\ trees_' = [trees_ EXCEPT ![it] = NULL]
                                    /\ it' = it + 1
                                    /\ pc' = "merge"
                       ELSE /\ it' = it + 1
                            /\ pc' = "merge"
                            /\ UNCHANGED << nodes, trees_ >>
                  ELSE IF \E k \in (it + 1) .. (GroupEnd - 1) : trees_[k] = NULL
                       THEN \* n->position() of an empty pointer in the predicate
                            /\ pc' = "undefined"
                            /\ UNCHANGED << nodes, trees_, it >>
                       ELSE LET good == { trees_[k] : k \in { k \in (it + 1) .. (GroupEnd - 1) :
                                            /\ IsNeighbor(neighbors, nodes[trees_[k]].position_)
                                            /\ CanMerge(nodes[trees_[k]].position_, pos) } }
                                r == Partition(trees_, it + 1, GroupEnd, good)
                                merge_end == r.mid
                            IN /\ nodes' = MergeAll(nodes, current_node,
                                                    SubSeq(r.seq, it + 1, merge_end - 1))
                               /\ trees_' = [ k \in DOMAIN trees_ |->
                                               IF k > it /\ k < merge_end THEN NULL ELSE r.seq[k] ]
                               /\ it' = merge_end
                               /\ pc' = "merge"
    /\ UNCHANGED << inputs, elsewhere, volumes_, next_node, model_contact, layer, pl_layer,
                    groups, it_s, mst >>

(***************************************************************************)
(* moveTowards, and the move loop of processLayer                          *)
(***************************************************************************)
\* the position moveTowards steps to before it looks at the invalid area
StepTowards(point, target, move_limit) ==
    IF vSize(target - point) > move_limit
    THEN point + Normal(target - point, move_limit)
    ELSE target
\* moveTowards: the positions it can return (moveOutside starts from a closest
\* point of the outline; two of them can be at the same distance)
MoveTowards(point, target, invalid, move_limit) ==
    LET new_pos == StepTowards(point, target, move_limit)
    IN IF InsideStrict(invalid, new_pos)
       THEN { MoveOutsideFrom(invalid, b, move_limit) : b \in ClosestPoints(new_pos, invalid) }
       ELSE { new_pos }
RECURSIVE SumSeq(_)
SumSeq(seq) == IF seq = <<>> THEN 0 ELSE Head(seq) + SumSeq(Tail(seq))
\* std::accumulate(neighbors) / neighbors.size()
MeanOf(neighbors) == TruncDiv(SumSeq(neighbors), Len(neighbors))
\* the test that drops a node whose step would be longer than max_move
TooFar(new_pos, pos) == vSize(new_pos - pos) > params_.max_move

\* the move loop is over: ++it_s, ++it_e
MoveDone ==
    /\ pc = "move"
    /\ it = GroupEnd
    /\ it_s' = it_s + 1
    /\ pc' = "group"
    /\ UNCHANGED << inputs, elsewhere, volumes_, nodes, next_node, model_contact, trees_,
                    layer, pl_layer, groups, it, mst >>

\* one turn of the move loop, for the node at it
MoveNode ==
    /\ pc = "move"
    /\ it # GroupEnd
    /\ LET current_node == trees_[it]
       IN IF current_node = NULL
          THEN UNCHANGED << volumes_, nodes, trees_ >>
          ELSE LET pos == nodes[current_node].position_
                   v1 == Avoidance(volumes_, nodes[current_node].radius_, pl_layer)
                   avoid == v1.avoidance_cache_[<< nodes[current_node].radius_, pl_layer >>]
                   neighbors == AdjacentNodes(mst, pos)
               IN /\ volumes_' = v1
                  /\ IF CannotEscape(avoid, pos)
                     THEN /\ nodes' = Destroy(nodes, current_node)
                          /\ trees_' = [trees_ EXCEPT ![it] = NULL]
                     ELSE \E new_pos \in
                              IF Len(neighbors) # 0
                              THEN MoveTowards(pos, MeanOf(neighbors), avoid, params_.max_move)
                              ELSE IF InsideStrict(avoid, pos)
                                   THEN { FindClosest(pos, avoid) }
                                   ELSE { pos } :
                            IF TooFar(new_pos, pos)
                            THEN /\ nodes' = Destroy(nodes, current_node)
                                 /\ trees_' = [trees_ EXCEPT ![it] = NULL]
                            ELSE /\ nodes' = [nodes EXCEPT ![current_node].position_ = new_pos]
                                 /\ UNCHANGED trees_
    /\ it' = it + 1
    /\ pc' = "move"
    /\ UNCHANGED << inputs, elsewhere, next_node, model_contact, layer, pl_layer, groups,
                    it_s, mst >>

ProcessLayer ==
    \/ DropNodes
    \/ RemoveUnsupportableByBuildPlate
    \/ GroupNodes
    \/ BeginGroup
    \/ MergeNode
    \/ MergeDone
    \/ MoveNode
    \/ MoveDone
    \/ EraseMerged

Next ==
    \/ GenerateContactPoints
    \/ AddContactNodes
    \/ ProcessLayer
    \/ DrawCircles

Spec == Init /\ [][Next]_vars

(***************************************************************************)
(* generateSupportAreas on a mesh that stands on a narrow pillar, with a   *)
(* denser grid: layers that hold three and more nodes in several groups    *)
(***************************************************************************)
\* the outline of a layer of such a mesh
PillarOutlines == OutlineChoices \cup { Seg(7, 9) }
PillarGrids == { <<6, 7, 10>>, <<6, 7, 8, 9, 10>> }
PillarStorageSet ==
    { s \in [ layer_outlines : [Layers -> PillarOutlines],
              overhang_areas : [Layers -> OverhangChoices] ] :
        /\ \A z \in Layers :
            /\ s.overhang_areas[z] \subseteq s.layer_outlines[z]
            /\ (z > 0 => s.overhang_areas[z] \cap s.layer_outlines[z - 1] = {})
            /\ (z < 2 => s.overhang_areas[z] = {})
        /\ \E z \in Layers : s.layer_outlines[z] = Seg(7, 9) }
\* branches of no width: a diameter of one unit gives branch_radius 0, and
\* the radius does not grow on the way down
ThinSettingsSet ==
    [ support_tree_branch_diameter : {1},
      layer_height : {1},
      support_xy_distance : {1},
      support_tree_angle : SupportAngles,
      support_tree_branch_diameter_angle : {0},
      support_top_distance : TopDistances,
      support_type : SupportTypes ]
InitPillar ==
    /\ settings \in ThinSettingsSet
    /\ storage \in PillarStorageSet
    /\ grid_points \in PillarGrids
    /\ params_ = TreeParams(settings)
    /\ volumes_ = EmptyVolumes
    /\ nodes = <<>>
    /\ next_node = 1
    /\ model_contact = <<>>
    /\ trees_ = <<>>
    /\ layer = 0
    /\ pl_layer = 0
    /\ pc = "generateContactPoints"
    /\ groups = <<>>
    /\ it_s = 0
    /\ it = 0
    /\ mst = {}
    /\ moves = <<>>
    /\ OldIdle
    /\ AsideIdle
    /\ threads = <<>>
SpecPillar == InitPillar /\ [][Next]_vars

(***************************************************************************)
(* ModelVolumes on its own: the three lookups called in any order          *)
(***************************************************************************)
\* the radii and layers the lookups are called with
QueryRadii == { 0, params_.branch_radius }
QueryLayers == { 0, 1 }
\* a model without overhang, empty above the layers that are looked up
VolStorageSet ==
    { s \in StorageSet :
        \A z \in Layers :
            /\ s.overhang_areas[z] = {}
            /\ (z \notin QueryLayers => s.layer_outlines[z] = {}) }

\* ModelVolumes::ModelVolumes(params, storage): the caches start empty
InitVol ==
    /\ settings \in SettingsSet
    /\ storage \in VolStorageSet
    /\ grid_points = <<>>
    /\ params_ = TreeParams(settings)
    /\ volumes_ = EmptyVolumes
    /\ nodes = <<>>
    /\ next_node = 1
    /\ model_contact = <<>>
    /\ trees_ = <<>>
    /\ layer = 0
    /\ pl_layer = 0
    /\ pc = "volumes"
    /\ groups = <<>>
    /\ it_s = 0
    /\ it = 0
    /\ mst = {}
    /\ moves = <<>>
    /\ OldIdle
    /\ AsideIdle
    /\ threads = <<>>

notvolumes == << settings, storage, grid_points, params_, nodes, next_node,
                 model_contact, trees_, layer, pl_layer, pc, groups, it_s, it, mst,
                 elsewhere >>

CallCollision ==
    /\ pc = "volumes"
    /\ \E radius \in QueryRadii, z \in QueryLayers :
         volumes_' = Collision(volumes_, radius, z)
    /\ UNCHANGED notvolumes

CallAvoidance ==
    /\ pc = "volumes"
    /\ \E radius \in QueryRadii, z \in QueryLayers :
         volumes_' = Avoidance(volumes_, radius, z)
    /\ UNCHANGED notvolumes

CallInternalModel ==
    /\ pc = "volumes"
    /\ \E radius \in QueryRadii, z \in QueryLayers :
         volumes_' = InternalModel(volumes_, radius, z)
    /\ UNCHANGED notvolumes

NextVol ==
    \/ CallCollision
    \/ CallAvoidance
    \/ CallInternalModel

SpecVol == InitVol /\ [][NextVol]_vars

(***************************************************************************)
(* ModelVolumes called from two threads.  The three lookups are const      *)
(* member functions over mutable caches (TreeSupport.h, 322-324) and take  *)
(* no lock: a thread runs find, then the calls that compute the value,     *)
(* then insert, and another thread may run between any two of these.       *)
(***************************************************************************)
Threads == { 1, 2 }
ThreadRadii == { params_.branch_radius }

\* the activation record of one lookup, about to run find
Call(fn, radius, z) == [ fn |-> fn, radius |-> radius, z |-> z, at |-> "find" ]
\* the lookup a thread is in
Top(t) == threads[t][Len(threads[t])]
TopKey(t) == << Top(t).radius, Top(t).z >>
\* the cache a lookup reads and writes
CacheOf(vol, fn) ==
    CASE fn = "collision" -> vol.collision_cache_
      [] fn = "avoidance" -> vol.avoidance_cache_
      [] fn = "internal_model" -> vol.internal_model_cache_

\* return from the lookup on top of the stack
Return(t) == [threads EXCEPT ![t] = SubSeq(@, 1, Len(@) - 1)]
\* move the lookup on top of the stack to its next statement
Goto(t, at) == [threads EXCEPT ![t][Len(threads[t])].at = at]

InitMT ==
    /\ settings \in { s \in SettingsSet : /\ s.support_type = "EVERYWHERE"
                                          /\ s.support_xy_distance = 1
                                          /\ s.layer_height = 1 }
    /\ storage \in VolStorageSet
    /\ grid_points = <<>>
    /\ params_ = TreeParams(settings)
    /\ volumes_ = EmptyVolumes
    /\ nodes = <<>>
    /\ next_node = 1
    /\ model_contact = <<>>
    /\ trees_ = <<>>
    /\ layer = 0
    /\ pl_layer = 0
    /\ pc = "volumes"
    /\ groups = <<>>
    /\ it_s = 0
    /\ it = 0
    /\ mst = {}
    /\ moves = <<>>
    /\ OldIdle
    /\ AsideIdle
    /\ threads = [t \in Threads |-> <<>>]

notthreads == << settings, storage, grid_points, params_, nodes, next_node,
                 model_contact, trees_, layer, pl_layer, groups, it_s, it, mst,
                 moves, oldvars, aside >>

\* a thread calls collision, avoidance or internal_model
ThreadCall(t) ==
    /\ pc = "volumes"
    /\ threads[t] = <<>>
    /\ \E fn \in { "collision", "avoidance", "internal_model" },
          radius \in ThreadRadii, z \in QueryLayers :
         threads' = [threads EXCEPT ![t] = << Call(fn, radius, z) >>]
    /\ UNCHANGED << notthreads, volumes_, pc >>

\* const auto it = cache.find(key): return on a hit, go on to compute the
\* value on a miss
ThreadFind(t) ==
    /\ pc = "volumes"
    /\ threads[t] # <<>>
    /\ Top(t).at = "find"
    /\ threads' =
         IF TopKey(t) \in DOMAIN CacheOf(volumes_, Top(t).fn) THEN Return(t)
         ELSE IF Top(t).fn = "collision" THEN Goto(t, "insert")
         ELSE IF Top(t).fn = "avoidance" /\ Top(t).z = 0 THEN Goto(t, "collision")
         ELSE Goto(t, "avoidance")
    /\ UNCHANGED << notthreads, volumes_, pc >>

\* the calls a lookup makes after a miss: avoidance of the layer below
\* (avoidance) or of this layer (internal_model), then collision
ThreadDescend(t) ==
    /\ pc = "volumes"
    /\ threads[t] # <<>>
    /\ Top(t).at \in { "avoidance", "collision" }
    /\ LET f == Top(t)
           callee == IF f.at = "collision" THEN Call("collision", f.radius, f.z)
                     ELSE IF f.fn = "avoidance"
                     THEN Call("avoidance", f.radius, f.z - 1)
                     ELSE Call("avoidance", f.radius, f.z)
           after == IF f.at = "avoidance" THEN "collision" ELSE "insert"
       IN threads' = [threads EXCEPT ![t] = Append(Goto(t, after)[t], callee)]
    /\ UNCHANGED << notthreads, volumes_, pc >>

\* the polygon a lookup stores, from the references its calls returned
ComputedAreas(vol, fn, radius, z) ==
    CASE fn = "collision" -> CollisionAreas(radius, z)
      [] fn = "avoidance" /\ z = 0 -> vol.collision_cache_[<<radius, 0>>]
      [] fn = "avoidance" /\ z > 0 ->
            UnionPolygons(Smooth(Offset(vol.avoidance_cache_[<<radius, z - 1>>],
                                        0 - params_.max_move)),
                          vol.collision_cache_[<<radius, z>>])
      [] fn = "internal_model" ->
            Difference(vol.avoidance_cache_[<<radius, z>>],
                       vol.collision_cache_[<<radius, z>>])

\* cache.insert({key, value}); assert(ret.second): the assertion ends the
\* process unless NDEBUG compiled it out.  Layer 0 of avoidance assigns
\* through operator[] and asserts nothing.
ThreadInsert(t) ==
    /\ pc = "volumes"
    /\ threads[t] # <<>>
    /\ Top(t).at = "insert"
    /\ LET f == Top(t)
           key == TopKey(t)
           areas == ComputedAreas(volumes_, f.fn, f.radius, f.z)
           ret_second == key \notin DOMAIN CacheOf(volumes_, f.fn)
       IN /\ volumes_' =
                CASE f.fn = "collision" ->
                        [volumes_ EXCEPT !.collision_cache_ = Insert(@, key, areas)]
                  [] f.fn = "avoidance" /\ f.z = 0 ->
                        [volumes_ EXCEPT !.avoidance_cache_ = AvoidanceBase(@, f.radius, areas)]
                  [] f.fn = "avoidance" /\ f.z > 0 ->
                        [volumes_ EXCEPT !.avoidance_cache_ = Insert(@, key, areas)]
                  [] f.fn = "internal_model" ->
                        [volumes_ EXCEPT !.internal_model_cache_ = Insert(@, key, areas)]
          /\ threads' = Return(t)
          /\ \E ndebug \in BOOLEAN :
                pc' = IF ret_second \/ ndebug \/ (f.fn = "avoidance" /\ f.z = 0)
                      THEN pc ELSE "aborted"
    /\ UNCHANGED notthreads

NextMT ==
    \E t \in Threads :
        \/ ThreadCall(t)
        \/ ThreadFind(t)
        \/ ThreadDescend(t)
        \/ ThreadInsert(t)

SpecMT == InitMT /\ [][NextMT]_vars

(***************************************************************************)
(* The maximum move distance, computed at three places from the same two   *)
(* settings: TreeParams::TreeParams, TreeSupport::dropNodes and            *)
(* TreeSupport::propagateCollisionAreas.                                   *)
(***************************************************************************)
\* TreeSupport::dropNodes: angle < 90, the angle a double in radians
DropNodesMaximumMove(s) ==
    IF AngleRadians(s.support_tree_angle) < 90 * 1000000
    THEN TanTimes(s.support_tree_angle, s.layer_height)
    ELSE CoordMax
\* TreeSupport::propagateCollisionAreas: angle < TAU / 4
PropagateMaximumMove(s) ==
    IF AngleRadians(s.support_tree_angle) < TAU \div 4
    THEN TanTimes(s.support_tree_angle, s.layer_height)
    ELSE CoordMax

\* support_tree_angle is a setting between 0 and 90 degrees
AngleSettingsSet ==
    { [s EXCEPT !.support_tree_angle = angle] : s \in SettingsSet, angle \in { 0, 45, 90 } }

InitAngle ==
    /\ settings \in AngleSettingsSet
    /\ storage \in { s \in VolStorageSet : \A z \in Layers : s.layer_outlines[z] = {} }
    /\ grid_points = <<>>
    /\ params_ = TreeParams(settings)
    /\ volumes_ = EmptyVolumes
    /\ nodes = <<>>
    /\ next_node = 1
    /\ model_contact = <<>>
    /\ trees_ = <<>>
    /\ layer = 0
    /\ pl_layer = 0
    /\ pc = "settings"
    /\ groups = <<>>
    /\ it_s = 0
    /\ it = 0
    /\ mst = {}
    /\ threads = <<>>
    /\ moves = <<>>
    /\ OldIdle
    /\ AsideIdle

notmoves == << settings, storage, grid_points, params_, volumes_, nodes, next_node,
               model_contact, trees_, layer, pl_layer, pc, groups, it_s, it, mst,
               threads, oldvars, aside >>

ConstructTreeParams ==
    /\ pc = "settings"
    /\ moves' = ("TreeParams" :> MaxMoveOf(settings)) @@ moves
    /\ UNCHANGED notmoves

EnterDropNodes ==
    /\ pc = "settings"
    /\ moves' = ("dropNodes" :> DropNodesMaximumMove(settings)) @@ moves
    /\ UNCHANGED notmoves

EnterPropagateCollisionAreas ==
    /\ pc = "settings"
    /\ moves' = ("propagateCollisionAreas" :> PropagateMaximumMove(settings)) @@ moves
    /\ UNCHANGED notmoves

NextAngle ==
    \/ ConstructTreeParams
    \/ EnterDropNodes
    \/ EnterPropagateCollisionAreas

SpecAngle == InitAngle /\ [][NextAngle]_vars

(***************************************************************************)
(* cura::TreeSupport, the older generator: generateSupportAreas from the   *)
(* contact nodes on (lines 131-162), with radius_sample_resolution one     *)
(* unit, so that a radius is its own sample.                               *)
(***************************************************************************)
\* Node(position, distance_to_top, skin_direction, support_roof_layers_below,
\* to_buildplate, parent)
OldNode(position, distance_to_top, skin_direction, to_buildplate, parent) ==
    [ position |-> position, distance_to_top |-> distance_to_top,
      skin_direction |-> skin_direction,
      to_buildplate |-> to_buildplate, parent |-> parent,
      merged_neighbours |-> <<>> ]

\* collisionAreas: model_collision[radius_sample][layer_nr]
model_collision(radius, z) == CollisionAreas(radius, z)
\* propagateCollisionAreas: model_avoidance[radius_sample][layer_nr]
RECURSIVE model_avoidance(_, _)
model_avoidance(radius, z) ==
    IF z = 0 THEN model_collision(radius, 0)
    ELSE UnionPolygons(Smooth(Offset(model_avoidance(radius, z - 1),
                                     0 - PropagateMaximumMove(settings))),
                       model_collision(radius, z))
\* generateSupportAreas: model_internal_guide[radius_sample][layer_nr]
model_internal_guide(radius, z) ==
    Difference(model_avoidance(radius, z), model_collision(radius, z))

\* branch_radius_node for a distance to the top d; the sine of the branch
\* diameter angle, 45 degrees, is 0.707
BranchRadiusNode(d) ==
    LET branch_radius == settings.support_tree_branch_diameter \div 2
        tip_layers == branch_radius \div settings.layer_height
    IN IF d > tip_layers
       THEN branch_radius + (d * settings.layer_height * 707) \div 1000
       ELSE (branch_radius * d) \div tip_layers

\* PolygonUtils::moveOutside(polygons, from, distance, max_dist2): the
\* positions it can give, one for each closest point of the outline
MoveOutside(S, from, distance, max_dist2) ==
    IF Boundary(S) = {} THEN { from }
    ELSE { IF \/ InsideStrict(S, from) /\ vSize2(from - b) < max_dist2
              \/ ~InsideStrict(S, from) /\ vSize(from - b) < distance
           THEN MoveOutsideFrom(S, b, distance)
           ELSE from : b \in ClosestPoints(from, S) }

\* the positions on the layer below for a node at pos that heads for vertex,
\* from being the point the closest point of the guide is taken for and d the
\* distance to the top on that layer
NextPositions(g, pos, from, vertex, d) ==
    LET mm == DropNodesMaximumMove(settings)
        radius == BranchRadiusNode(d)
        guide == model_internal_guide(radius, layer_nr - 1)
        Clipped(moved_inside) ==
            LET difference == moved_inside - pos
            IN pos + (IF vSize2(difference) > mm * mm THEN Normal(difference, mm)
                      ELSE difference)
    IN IF g = 1
       THEN MoveOutside(model_avoidance(radius, layer_nr - 1), vertex, 1,
                        (mm + 1) * (mm + 1))
       ELSE IF Boundary(guide) = {} THEN { Clipped(vertex) }
       ELSE { Clipped(MoveOutsideFrom(guide, b, 0 - (vSize(pos - b) + mm))) :
                b \in ClosestPoints(from, guide) }

\* insertDroppedNode(nodes_layer, p_node): find looks for the pointer, which
\* a new node never is in the set
InsertDroppedNode(nodes_layer, p_node) == nodes_layer \cup { p_node }

\* the part of model_avoidance[0][layer_nr] a node is put with: the first
\* part it is inside of or on, or else the first of the closest parts
ClosestPart(parts, pos) ==
    LET distance2(i) == IF InsideBorder(parts[i], pos) THEN 0
                        ELSE vSize2(pos - FindClosest(pos, parts[i]))
    IN CHOOSE i \in DOMAIN parts :
          \A j \in DOMAIN parts :
              /\ distance2(j) >= distance2(i)
              /\ (distance2(j) = distance2(i) => j >= i)

\* the skin directions generateContactPoints gives the contact nodes of one
\* overhang part, in the order of PartNodes: those of the grid, or that of the
\* node added when the grid gave none
PartSkinDirections(part, z) ==
    LET grid == GridNodes(part, z, 1)
    IN [i \in DOMAIN grid |-> (z + ZDistanceTopLayers) % 2]
       \o (IF grid # <<>> THEN <<>> ELSE << z % 2 >>)
RECURSIVE PartsSkinDirections(_, _, _)
PartsSkinDirections(parts, z, i) ==
    IF i > Len(parts) THEN <<>>
    ELSE PartSkinDirections(parts[i], z) \o PartsSkinDirections(parts, z, i + 1)
\* the skin directions of contact_points, in the order of ContactPointsFrom
RECURSIVE SkinDirectionsFrom(_)
SkinDirectionsFrom(z) ==
    IF z \notin SeededLayers THEN <<>>
    ELSE PartsSkinDirections(OverhangParts(z), z, 1) \o SkinDirectionsFrom(z + 1)

InitOld ==
    /\ settings \in { s \in SettingsSet : s.support_xy_distance = 1 }
    /\ storage \in StorageSet
    /\ grid_points \in GridChoices
    /\ params_ = TreeParams(settings)
    /\ volumes_ = EmptyVolumes
    /\ nodes = <<>>
    /\ next_node = 1
    /\ model_contact = <<>>
    /\ trees_ = <<>>
    /\ layer = 0
    /\ pl_layer = 0
    /\ pc = "old_generateContactPoints"
    /\ groups = <<>>
    /\ it_s = 0
    /\ it = 0
    /\ mst = {}
    /\ threads = <<>>
    /\ moves = <<>>
    /\ contact_nodes = [z \in Layers |-> {}]
    /\ layer_nr = 0
    /\ nodes_per_part = <<>>
    /\ group_index = 0
    /\ pending = {}
    /\ to_delete = {}
    /\ unsupported_branch_leaves = <<>>
    /\ to_free_node_set = {}
    /\ deleted = {}
    /\ generated = FALSE
    /\ unsupported = {}
    /\ AsideIdle

notold == << settings, storage, grid_points, params_, volumes_, model_contact,
             trees_, layer, pl_layer, groups, it_s, it, mst, threads, moves,
             aside >>

\* generateContactPoints(mesh, contact_nodes, model_collision[0]): the loop of
\* Tree::TreeSupport::generateContactPoints, with to_buildplate set
OldGenerateContactPoints ==
    /\ pc = "old_generateContactPoints"
    /\ LET points == ContactPoints
           skins == SkinDirectionsFrom(1)
       IN /\ nodes' = [i \in DOMAIN points |->
                          OldNode(points[i].position_, 0, skins[i], TRUE, NULL)]
          /\ next_node' = Len(points) + 1
          /\ contact_nodes' = [z \in Layers |-> { i \in DOMAIN points : points[i].layer_ = z }]
    /\ layer_nr' = NLayers - 1
    /\ pc' = "old_layer"
    /\ UNCHANGED << notold, nodes_per_part, group_index, pending, to_delete,
                    unsupported_branch_leaves, to_free_node_set, deleted,
                    generated, unsupported >>

\* dropNodes, lines 335-390: the nodes of the layer are put into groups, and
\* those that may not rest on the model and cannot reach the build plate are
\* marked; of two nodes of a group at one position the map keeps one
OldGroupNodes ==
    /\ pc = "old_layer"
    /\ layer_nr > 0
    /\ LET layer_contact_nodes == contact_nodes[layer_nr]
           parts == SplitIntoParts(model_avoidance(0, layer_nr))
           support_rests_on_model == settings.support_type = "EVERYWHERE"
           leaves == { n \in layer_contact_nodes :
                         ~support_rests_on_model /\ ~nodes[n].to_buildplate }
           GroupOf(n) == IF nodes[n].to_buildplate \/ parts = <<>> THEN 1
                         ELSE ClosestPart(parts, nodes[n].position) + 1
           Same(m, n) == GroupOf(m) = GroupOf(n) /\ nodes[m].position = nodes[n].position
       IN \E order \in Perms(leaves), kept \in SUBSET (layer_contact_nodes \ leaves) :
            LET per_part == [ g \in 1 .. (Len(parts) + 1) |->
                    [ p \in { nodes[n].position : n \in { m \in kept : GroupOf(m) = g } } |->
                        CHOOSE n \in kept : GroupOf(n) = g /\ nodes[n].position = p ] ]
            IN /\ \A n \in layer_contact_nodes \ leaves :
                    Cardinality({ m \in kept : Same(m, n) }) = 1
               /\ nodes_per_part' = per_part
               /\ pending' = DOMAIN per_part[1]
               /\ unsupported_branch_leaves' =
                    [i \in DOMAIN order |-> << layer_nr, order[i] >>]
               /\ unsupported' = unsupported \cup leaves
    /\ group_index' = 1
    /\ to_delete' = {}
    /\ pc' = "old_merge"
    /\ UNCHANGED << notold, nodes, next_node, contact_nodes, layer_nr,
                    to_free_node_set, deleted, generated >>

\* dropNodes, lines 405-472: one turn of the first pass over a group
OldMergeNode ==
    /\ pc = "old_merge"
    /\ \E p \in pending :
         LET group == nodes_per_part[group_index]
             p_node == group[p]
             node == nodes[p_node]
             mm == DropNodesMaximumMove(settings)
             neighbours == AdjacentNodes(DOMAIN group, p)
             close == SelectSeq(neighbours, LAMBDA q : vSize2(q - p) < mm * mm)
             absorbed == [i \in DOMAIN close |-> group[close[Len(close) + 1 - i]]]
         IN /\ pending' = pending \ { p }
            /\ IF p_node \in to_delete
               THEN UNCHANGED << nodes, next_node, contact_nodes, to_delete, pc >>
               ELSE IF /\ Len(neighbours) = 1
                       /\ vSize2(neighbours[1] - p) < mm * mm
                       /\ Len(AdjacentNodes(DOMAIN group, neighbours[1])) = 1
               THEN \E next_position \in
                        NextPositions(group_index, p, p, TruncDiv(p + neighbours[1], 2),
                                      node.distance_to_top + 1) :
                      LET neighbour == group[neighbours[1]]
                          to_buildplate ==
                              ~InsideStrict(model_avoidance(BranchRadiusNode(node.distance_to_top + 1),
                                                            layer_nr - 1), next_position)
                      IN /\ nodes' = (next_node :> OldNode(next_position, node.distance_to_top + 1,
                                                           node.skin_direction,
                                                           to_buildplate, p_node))
                                     @@ [nodes EXCEPT ![p_node].merged_neighbours = << neighbour >> \o @]
                         /\ next_node' = next_node + 1
                         /\ contact_nodes' = [contact_nodes EXCEPT
                                ![layer_nr - 1] = InsertDroppedNode(@, next_node)]
                         /\ to_delete' = to_delete \cup { neighbour, p_node }
                         /\ pc' = pc
               ELSE IF Len(neighbours) > 1
               THEN IF \E i \in DOMAIN absorbed : nodes[absorbed[i]].merged_neighbours # <<>>
                    THEN \* insert_after(end(), first, last) of a range that is not empty
                         /\ pc' = "undefined"
                         /\ UNCHANGED << nodes, next_node, contact_nodes, to_delete >>
                    ELSE /\ nodes' = [nodes EXCEPT
                              ![p_node].distance_to_top =
                                  SetMax({ @ } \cup { nodes[absorbed[i]].distance_to_top : i \in DOMAIN absorbed }),
                              ![p_node].merged_neighbours = absorbed \o @]
                         /\ to_delete' = to_delete \cup { absorbed[i] : i \in DOMAIN absorbed }
                         /\ UNCHANGED << next_node, contact_nodes, pc >>
               ELSE UNCHANGED << nodes, next_node, contact_nodes, to_delete, pc >>
    /\ UNCHANGED << notold, layer_nr, nodes_per_part, group_index,
                    unsupported_branch_leaves, to_free_node_set, deleted,
                    generated, unsupported >>

\* the first pass over the group is over
OldMergeDone ==
    /\ pc = "old_merge"
    /\ pending = {}
    /\ pending' = DOMAIN nodes_per_part[group_index]
    /\ pc' = "old_move"
    /\ UNCHANGED << notold, nodes, next_node, contact_nodes, layer_nr, nodes_per_part,
                    group_index, to_delete, unsupported_branch_leaves,
                    to_free_node_set, deleted, generated, unsupported >>

\* dropNodes, lines 474-540: one turn of the second pass over a group
OldMoveNode ==
    /\ pc = "old_move"
    /\ \E p \in pending :
         LET group == nodes_per_part[group_index]
             p_node == group[p]
             node == nodes[p_node]
             mm == DropNodesMaximumMove(settings)
             neighbours == AdjacentNodes(DOMAIN group, p)
             collision == model_collision(0, layer_nr)
             sum_direction == SumSeq([i \in DOMAIN neighbours |-> neighbours[i] - p])
             next_layer_vertex ==
                 IF Len(neighbours) > 1
                    \/ (Len(neighbours) = 1 /\ vSize2(neighbours[1] - p) >= mm * mm)
                 THEN IF vSize2(sum_direction) <= mm * mm THEN p + sum_direction
                      ELSE p + Normal(sum_direction, mm)
                 ELSE p
         IN /\ pending' = pending \ { p }
            /\ IF p_node \in to_delete
               THEN UNCHANGED << nodes, next_node, contact_nodes,
                                 unsupported_branch_leaves, unsupported >>
               ELSE IF /\ group_index > 1
                       /\ InsideStrict(collision, p)
                       /\ vSize2(p - FindClosest(p, collision))
                            >= BranchRadiusNode(node.distance_to_top) * BranchRadiusNode(node.distance_to_top)
               THEN /\ unsupported_branch_leaves' =
                         << << layer_nr, p_node >> >> \o unsupported_branch_leaves
                    /\ unsupported' = unsupported \cup { p_node }
                    /\ UNCHANGED << nodes, next_node, contact_nodes >>
               ELSE \E next_position \in
                        NextPositions(group_index, p, next_layer_vertex, next_layer_vertex,
                                      node.distance_to_top + 1) :
                      LET to_buildplate ==
                              ~InsideStrict(model_avoidance(BranchRadiusNode(node.distance_to_top + 1),
                                                            layer_nr - 1), next_position)
                      IN /\ nodes' = (next_node :> OldNode(next_position, node.distance_to_top + 1,
                                                           node.skin_direction,
                                                           to_buildplate, p_node)) @@ nodes
                         /\ next_node' = next_node + 1
                         /\ contact_nodes' = [contact_nodes EXCEPT
                                ![layer_nr - 1] = InsertDroppedNode(@, next_node)]
                         /\ UNCHANGED << unsupported_branch_leaves, unsupported >>
    /\ UNCHANGED << notold, layer_nr, nodes_per_part, group_index, to_delete, pc,
                    to_free_node_set, deleted, generated >>

\* the second pass over the group is over: the next group, or the pruning
OldMoveDone ==
    /\ pc = "old_move"
    /\ pending = {}
    /\ IF group_index < Len(nodes_per_part)
       THEN /\ group_index' = group_index + 1
            /\ pending' = DOMAIN nodes_per_part[group_index + 1]
            /\ to_delete' = {}
            /\ pc' = "old_merge"
       ELSE /\ pc' = "old_prune"
            /\ UNCHANGED << group_index, pending, to_delete >>
    /\ UNCHANGED << notold, nodes, next_node, contact_nodes, layer_nr, nodes_per_part,
                    unsupported_branch_leaves, to_free_node_set, deleted,
                    generated, unsupported >>

\* a branch pruned upwards from its leaf only, the merged neighbours left
RECURSIVE PruneBranchAlone(_, _, _)
PruneBranchAlone(st, i_layer, i_node) ==
    IF i_node = NULL THEN st
    ELSE PruneBranchAlone(
            [ st EXCEPT !.contact_nodes[i_layer] = @ \ { i_node },
                        !.to_free_node_set = @ \cup { i_node } ],
            i_layer + 1, nodes[i_node].parent)
\* dropNodes, lines 547-555: the loop over i_node and its parents, on the
\* contact nodes, the set to free and the deque
RECURSIVE PruneBranch(_, _, _)
PruneBranch(st, i_layer, i_node) ==
    IF i_node = NULL THEN st
    ELSE LET merged == nodes[i_node].merged_neighbours
         IN PruneBranch(
               [ st EXCEPT !.contact_nodes[i_layer] = @ \ { i_node },
                           !.to_free_node_set = @ \cup { i_node },
                           !.unsupported_branch_leaves =
                               [i \in DOMAIN merged |->
                                   << i_layer, merged[Len(merged) + 1 - i] >>] \o @ ],
               i_layer + 1, nodes[i_node].parent)

\* dropNodes, lines 544-556: one turn of the pruning loop
OldPrune ==
    /\ pc = "old_prune"
    /\ unsupported_branch_leaves # <<>>
    /\ LET entry == unsupported_branch_leaves[Len(unsupported_branch_leaves)]
           st == PruneBranch([ contact_nodes |-> contact_nodes,
                               to_free_node_set |-> to_free_node_set,
                               unsupported_branch_leaves |-> unsupported_branch_leaves ],
                             entry[1], entry[2])
       IN /\ contact_nodes' = st.contact_nodes
          /\ to_free_node_set' = st.to_free_node_set
          /\ unsupported_branch_leaves' =
                SubSeq(st.unsupported_branch_leaves, 1, Len(st.unsupported_branch_leaves) - 1)
    /\ UNCHANGED << notold, nodes, next_node, layer_nr, nodes_per_part, group_index,
                    pending, to_delete, pc, deleted, generated, unsupported >>

\* the deque is empty: layer_nr--
OldLayerDone ==
    /\ pc = "old_prune"
    /\ unsupported_branch_leaves = <<>>
    /\ layer_nr' = layer_nr - 1
    /\ pc' = "old_layer"
    /\ UNCHANGED << notold, nodes, next_node, contact_nodes, nodes_per_part, group_index,
                    pending, to_delete, unsupported_branch_leaves, to_free_node_set,
                    deleted, generated, unsupported >>

\* dropNodes, lines 562-566: delete of every node of to_free_node_set
OldFree ==
    /\ pc = "old_layer"
    /\ layer_nr = 0
    /\ deleted' = deleted \cup to_free_node_set
    /\ to_free_node_set' = {}
    /\ pc' = "old_drawCircles"
    /\ UNCHANGED << notold, nodes, next_node, contact_nodes, layer_nr, nodes_per_part,
                    group_index, pending, to_delete, unsupported_branch_leaves,
                    generated, unsupported >>

\* generateSupportAreas, lines 149-162: drawCircles reads every node of
\* contact_nodes and the loop after it deletes every one of them, which no
\* node survives that dropNodes has deleted; then the flag is set
OldDrawCircles ==
    /\ pc = "old_drawCircles"
    /\ LET left == UNION { contact_nodes[z] : z \in DOMAIN contact_nodes }
       IN IF left \cap deleted # {}
          THEN /\ pc' = "undefined"
               /\ UNCHANGED << contact_nodes, deleted, generated >>
          ELSE /\ deleted' = deleted \cup left
               /\ contact_nodes' = <<>>
               /\ generated' = TRUE
               /\ pc' = "old_done"
    /\ UNCHANGED << notold, nodes, next_node, layer_nr, nodes_per_part, group_index,
                    pending, to_delete, unsupported_branch_leaves, to_free_node_set,
                    unsupported >>

NextOld ==
    \/ OldGenerateContactPoints
    \/ OldGroupNodes
    \/ OldMergeNode
    \/ OldMergeDone
    \/ OldMoveNode
    \/ OldMoveDone
    \/ OldPrune
    \/ OldLayerDone
    \/ OldFree
    \/ OldDrawCircles

SpecOld == InitOld /\ [][NextOld]_vars

(***************************************************************************)
(* The older dropper on a row of contact nodes: five candidate points one  *)
(* unit apart, so that a layer can hold a chain of nodes in which an inner *)
(* node has a hub on either side.                                          *)
(***************************************************************************)
ChainGrids == { <<6, 7, 8, 9, 10>> }
\* a maximum move of two units, and an overhang on the top layer only
ChainSettingsSet ==
    { s \in SettingsSet : s.support_xy_distance = 1 /\ s.layer_height = 2 }
ChainStorageSet ==
    { s \in StorageSet : s.overhang_areas[2] = {} /\ s.layer_outlines[0] = {} }
InitChain ==
    /\ settings \in ChainSettingsSet
    /\ storage \in ChainStorageSet
    /\ grid_points \in ChainGrids
    /\ params_ = TreeParams(settings)
    /\ volumes_ = EmptyVolumes
    /\ nodes = <<>>
    /\ next_node = 1
    /\ model_contact = <<>>
    /\ trees_ = <<>>
    /\ layer = 0
    /\ pl_layer = 0
    /\ pc = "old_generateContactPoints"
    /\ groups = <<>>
    /\ it_s = 0
    /\ it = 0
    /\ mst = {}
    /\ threads = <<>>
    /\ moves = <<>>
    /\ contact_nodes = [z \in Layers |-> {}]
    /\ layer_nr = 0
    /\ nodes_per_part = <<>>
    /\ group_index = 0
    /\ pending = {}
    /\ to_delete = {}
    /\ unsupported_branch_leaves = <<>>
    /\ to_free_node_set = {}
    /\ deleted = {}
    /\ generated = FALSE
    /\ unsupported = {}
    /\ AsideIdle
SpecChain == InitChain /\ [][NextOld]_vars

(***************************************************************************)
(* The loop over the layers of Tree::TreeSupport::generateContactPoints,   *)
(* for meshes of any number of layers                                      *)
(***************************************************************************)
\* the largest mesh.overhang_areas.size() of these runs
MaxOverhangLayers == 6
\* support_top_distance of these runs
SeedTopDistances == 0 .. 3
\* size_t is unsigned: its arithmetic is modulo a power of two, 2^64 in the
\* build and 2^16 on the scale of the model
SizeModulus == 65536
\* a - b in size_t
SizeMinus(a, b) == (a - b + SizeModulus) % SizeModulus
\* z_distance_top_layers
SeedGapLayers(s) == RoundUpDivide(s.z_gap, s.layer_height) + 1
\* mesh.overhang_areas.size() - z_distance_top_layers: the int is converted to
\* size_t and the difference is taken there
SeedBound(s) == SizeMinus(s.overhang_areas_size, SeedGapLayers(s))
InitSeed ==
    /\ settings \in SettingsSet
    /\ settings.support_xy_distance = 1
    /\ settings.support_type = "EVERYWHERE"
    /\ storage = [ layer_outlines |-> [z \in Layers |-> {}],
                   overhang_areas |-> [z \in Layers |-> {}] ]
    /\ grid_points = <<>>
    /\ params_ = TreeParams(settings)
    /\ volumes_ = EmptyVolumes
    /\ nodes = <<>>
    /\ next_node = 1
    /\ model_contact = <<>>
    /\ trees_ = <<>>
    /\ layer = 0
    /\ pl_layer = 0
    /\ pc = "seed_loop"
    /\ groups = <<>>
    /\ it_s = 0
    /\ it = 0
    /\ mst = {}
    /\ threads = <<>>
    /\ moves = <<>>
    /\ OldIdle
    /\ sizes \in [ overhang_areas_size : 0 .. MaxOverhangLayers,
                   z_gap : SeedTopDistances,
                   layer_height : { settings.layer_height } ]
    /\ counter = 1
    /\ visited = <<>>
    /\ support = <<>>
    /\ lock = 0
    /\ workers = <<>>
notloop == << settings, storage, grid_points, params_, volumes_, nodes, next_node,
              model_contact, trees_, layer, pl_layer, groups, it_s, it, mst,
              threads, moves, oldvars, sizes, support, lock, workers >>
\* one turn of the loop: mesh.overhang_areas[layer_nr + z_distance_top_layers]
\* is read; an index that is not below size() is read out of the vector
SeedLayer ==
    /\ pc = "seed_loop"
    /\ counter < SeedBound(sizes)
    /\ visited' = Append(visited, counter)
    /\ counter' = counter + 1
    /\ pc' = IF counter + SeedGapLayers(sizes) < sizes.overhang_areas_size
             THEN "seed_loop" ELSE "undefined"
    /\ UNCHANGED notloop
\* the loop condition fails: return contact_points
SeedReturn ==
    /\ pc = "seed_loop"
    /\ ~(counter < SeedBound(sizes))
    /\ pc' = "seed_done"
    /\ UNCHANGED << notloop, counter, visited >>
NextSeed == SeedLayer \/ SeedReturn
SpecSeed == InitSeed /\ [][NextSeed]_vars

(***************************************************************************)
(* TreeSupport::drawCircles: the parallel loop over the layers.  Each      *)
(* iteration fills the support of its own layer and then, in the critical  *)
(* section support_max_layer_nr, raises layer_nr_max_filled_layer.  Any    *)
(* thread of the team can get any iteration.                               *)
(***************************************************************************)
\* contact_nodes.size(), which is storage.support.supportLayers.size()
NDrawLayers == 3
DrawLayers == 0 .. (NDrawLayers - 1)
\* the threads of the team
DrawThreads == { 1, 2 }
\* storage.support.layer_nr_max_filled_layer before the call
MaxFilledBefore == { -1, 1 }
\* the critical section can be entered: no thread is inside
LockOpen(l) == TRUE
LockFree(l) == l = NULL
IdleWorker == [ layer_nr |-> 0, at |-> "idle", max |-> 0 ]
InitDraw ==
    /\ settings \in SettingsSet
    /\ settings.support_xy_distance = 1
    /\ settings.layer_height = 1
    /\ settings.support_type = "EVERYWHERE"
    /\ storage = [ layer_outlines |-> [z \in Layers |-> {}],
                   overhang_areas |-> [z \in Layers |-> {}] ]
    /\ grid_points = <<>>
    /\ params_ = TreeParams(settings)
    /\ volumes_ = EmptyVolumes
    /\ nodes = <<>>
    /\ next_node = 1
    /\ model_contact = <<>>
    /\ trees_ = <<>>
    /\ layer = 0
    /\ pl_layer = 0
    /\ pc = "draw_loop"
    /\ groups = <<>>
    /\ it_s = 0
    /\ it = 0
    /\ mst = {}
    /\ threads = <<>>
    /\ moves = <<>>
    /\ OldIdle
    /\ \E before \in MaxFilledBefore, drawn \in [DrawLayers -> BOOLEAN] :
         /\ sizes = [ before |-> before, drawn |-> drawn ]
         /\ \E filled \in [DrawLayers -> BOOLEAN] :
              support = [ filled |-> filled, layer_nr_max_filled_layer |-> before ]
    /\ counter = 0
    /\ visited = <<>>
    /\ lock = NULL
    /\ workers = [ t \in DrawThreads |-> IdleWorker ]
notdraw == << settings, storage, grid_points, params_, volumes_, nodes, next_node,
              model_contact, trees_, layer, pl_layer, groups, it_s, it, mst,
              threads, moves, oldvars, sizes >>
\* a thread starts the iteration of a layer no thread has started
DrawStart(t) ==
    /\ pc = "draw_loop"
    /\ workers[t].at = "idle"
    /\ \E z \in DrawLayers \ DOMAIN visited :
         /\ visited' = (z :> t) @@ visited
         /\ workers' = [workers EXCEPT ![t] = [ layer_nr |-> z, at |-> "draw", max |-> 0 ]]
    /\ UNCHANGED << notdraw, pc, counter, support, lock >>
\* lines 223-300: the circles of the nodes of the layer are added to the
\* roof and the parts of supportLayers[layer_nr], of this layer only, and the
\* roof is cut by the model; sizes.drawn says whether any of it is left
DrawParts(t) ==
    /\ pc = "draw_loop"
    /\ workers[t].at = "draw"
    /\ support' = [support EXCEPT
           !.filled[workers[t].layer_nr] = sizes.drawn[workers[t].layer_nr]]
    /\ workers' = [workers EXCEPT ![t].at = "critical"]
    /\ UNCHANGED << notdraw, pc, counter, visited, lock >>
\* #pragma omp critical (support_max_layer_nr): the thread waits at the
\* entry until no thread is inside
DrawEnter(t) ==
    /\ pc = "draw_loop"
    /\ workers[t].at = "critical"
    /\ LockFree(lock)
    /\ lock' = t
    /\ workers' = [workers EXCEPT ![t].at =
           IF support.filled[workers[t].layer_nr] THEN "read" ELSE "leave"]
    /\ UNCHANGED << notdraw, pc, counter, visited, support >>
\* std::max(storage.support.layer_nr_max_filled_layer, (int)layer_nr)
DrawRead(t) ==
    /\ pc = "draw_loop"
    /\ workers[t].at = "read"
    /\ workers' = [workers EXCEPT
           ![t].max = Max(support.layer_nr_max_filled_layer, workers[t].layer_nr),
           ![t].at = "write"]
    /\ UNCHANGED << notdraw, pc, counter, visited, support, lock >>
\* storage.support.layer_nr_max_filled_layer = ...
DrawWrite(t) ==
    /\ pc = "draw_loop"
    /\ workers[t].at = "write"
    /\ support' = [support EXCEPT !.layer_nr_max_filled_layer = workers[t].max]
    /\ workers' = [workers EXCEPT ![t].at = "leave"]
    /\ UNCHANGED << notdraw, pc, counter, visited, lock >>
\* the end of the critical section, and completed++
DrawLeave(t) ==
    /\ pc = "draw_loop"
    /\ workers[t].at = "leave"
    /\ lock' = NULL
    /\ counter' = counter + 1
    /\ workers' = [workers EXCEPT ![t] = IdleWorker]
    /\ UNCHANGED << notdraw, pc, visited, support >>
\* the barrier at the end of the parallel loop
DrawJoin ==
    /\ pc = "draw_loop"
    /\ DOMAIN visited = DrawLayers
    /\ \A t \in DrawThreads : workers[t].at = "idle"
    /\ pc' = "draw_done"
    /\ UNCHANGED << notdraw, counter, visited, support, lock, workers >>
NextDraw ==
    \/ \E t \in DrawThreads :
         \/ DrawStart(t)
         \/ DrawParts(t)
         \/ DrawEnter(t)
         \/ DrawRead(t)
         \/ DrawWrite(t)
         \/ DrawLeave(t)
    \/ DrawJoin
SpecDraw == InitDraw /\ [][NextDraw]_vars

(***************************************************************************)
(* TreeSupport::dropNodes: the loop over the layers, from the top down,    *)
(* with its counter of type size_t.                                        *)
(***************************************************************************)
\* storage.support.supportLayers.size(), which contact_nodes.size() equals
MaxSupportLayers == 14
InitDrop ==
    /\ settings \in SettingsSet
    /\ settings.support_xy_distance = 1
    /\ settings.layer_height = 1
    /\ settings.support_type = "EVERYWHERE"
    /\ storage = [ layer_outlines |-> [z \in Layers |-> {}],
                   overhang_areas |-> [z \in Layers |-> {}] ]
    /\ grid_points = <<>>
    /\ params_ = TreeParams(settings)
    /\ volumes_ = EmptyVolumes
    /\ nodes = <<>>
    /\ next_node = 1
    /\ model_contact = <<>>
    /\ trees_ = <<>>
    /\ layer = 0
    /\ pl_layer = 0
    /\ pc = "drop_loop"
    /\ groups = <<>>
    /\ it_s = 0
    /\ it = 0
    /\ mst = {}
    /\ threads = <<>>
    /\ moves = <<>>
    /\ OldIdle
    /\ sizes \in [ contact_nodes_size : 0 .. MaxSupportLayers ]
    \* size_t layer_nr = contact_nodes.size() - 1
    /\ counter = SizeMinus(sizes.contact_nodes_size, 1)
    /\ visited = <<>>
    /\ support = <<>>
    /\ lock = 0
    /\ workers = <<>>
\* one turn of the loop: auto& layer_contact_nodes = contact_nodes[layer_nr],
\* which reads outside the vector when layer_nr is not below its size
OldDropLayer ==
    /\ pc = "drop_loop"
    /\ counter > 0
    /\ IF counter < sizes.contact_nodes_size
       THEN /\ visited' = Append(visited, counter)
            /\ counter' = SizeMinus(counter, 1)
            /\ pc' = "drop_loop"
       ELSE /\ pc' = "undefined"
            /\ UNCHANGED << counter, visited >>
    /\ UNCHANGED notloop
\* the loop condition layer_nr > 0 fails
OldDropReturn ==
    /\ pc = "drop_loop"
    /\ ~(counter > 0)
    /\ pc' = "drop_done"
    /\ UNCHANGED << notloop, counter, visited >>
NextDrop == OldDropLayer \/ OldDropReturn
SpecDrop == InitDrop /\ [][NextDrop]_vars

(***************************************************************************)
(* The forest                                                              *)
(***************************************************************************)
\* the children of a node, as a set of addresses
ChildrenOf(n) == { nodes[n].children_[i] : i \in DOMAIN nodes[n].children_ }
\* a processLayer call has returned, or none was made yet
BetweenLayers == pc \in { "loop", "done" }
\* the state generateContactPoints leaves: every contact node is in
\* model_contact and trees_ is still empty
Seeded ==
    /\ pc \in { "loop", "undefined" }
    /\ trees_ = <<>>
    /\ next_node = Len(model_contact) + 1
    /\ DOMAIN nodes = 1 .. Len(model_contact)

(***************************************************************************)
(* C1: every node held in the children of a node is one layer above it.    *)
(***************************************************************************)
LayerLaw ==
    \A n \in DOMAIN nodes : \A c \in ChildrenOf(n) :
        nodes[c].layer_ = nodes[n].layer_ + 1
\* a finished run with a node that took the children of a merged node and a
\* node with a grandchild
LayerLawWitness ==
    /\ pc = "done"
    /\ \E n \in DOMAIN nodes : Cardinality(ChildrenOf(n)) >= 2
    /\ \E n \in DOMAIN nodes : \E c \in ChildrenOf(n) : ChildrenOf(c) # {}

(***************************************************************************)
(* C2: after every processLayer call each child is at most max_move away   *)
(* from the node that holds it, adopted children included.                 *)
(***************************************************************************)
MoveBound ==
    pc = "loop" =>
        \A n \in DOMAIN nodes : \A c \in ChildrenOf(n) :
            vSize(nodes[c].position_ - nodes[n].position_) <= params_.max_move

(***************************************************************************)
(* C3: no node of the forest, contact nodes included, is inside            *)
(* collision(0, layer) of its own layer.                                   *)
(***************************************************************************)
NoCollision ==
    BetweenLayers =>
        \A n \in DOMAIN nodes :
            ~InsideStrict(CollisionAreas(0, nodes[n].layer_), nodes[n].position_)

(***************************************************************************)
(* C4: in a finished run, whose roots are all at layer 0, no node of a     *)
(* tree is inside avoidance(radius, layer) of its own radius and layer.    *)
(***************************************************************************)
AvoidanceDiscipline ==
    pc = "done" =>
        \A n \in DOMAIN nodes :
            ~InsideStrict(AvoidanceOf(volumes_, nodes[n].radius_, nodes[n].layer_),
                          nodes[n].position_)

(***************************************************************************)
(* C5: after each processLayer call the nodes left in trees_ have pairwise *)
(* distinct positions.                                                     *)
(***************************************************************************)
UniquePositions ==
    pc = "loop" =>
        \A i, j \in DOMAIN trees_ :
            i # j => nodes[trees_[i]].position_ # nodes[trees_[j]].position_

(***************************************************************************)
(* C6: with at least one contact node generateSupportAreas runs its layer  *)
(* loop, one layer a turn, down to layer 0 and halts: no call it makes and *)
(* no turn of the merge loop runs into undefined behaviour.                *)
(***************************************************************************)
Halts == pc = "undefined" => ContactPoints = <<>>

(***************************************************************************)
(* C7: with can_support_on_model, a node that is inside the avoidance area *)
(* and further than max_move from its outline is kept by the move loop.    *)
(***************************************************************************)
StuckBranchSurvives ==
    [][ ( /\ pc = "move"
          /\ it # GroupEnd
          /\ trees_[it] # NULL
          /\ params_.can_support_on_model
          /\ CannotEscape(AvoidanceOf(volumes_, nodes[trees_[it]].radius_, pl_layer),
                          nodes[trees_[it]].position_) )
        => trees_'[it] = trees_[it] ]_vars

(***************************************************************************)
(* C8: the radius of a child is never larger than the radius of the node   *)
(* that holds it.                                                          *)
(***************************************************************************)
RadiusLaw ==
    \A n \in DOMAIN nodes : \A c \in ChildrenOf(n) :
        nodes[c].radius_ <= nodes[n].radius_
\* a finished run in which a node took the larger radius of two merged nodes
\* and a child is thinner than its parent
RadiusLawWitness ==
    /\ pc = "done"
    /\ \E n \in DOMAIN nodes :
         /\ Cardinality(ChildrenOf(n)) >= 2
         /\ \E c \in ChildrenOf(n) : nodes[c].radius_ < nodes[n].radius_

(***************************************************************************)
(* C9: after seeding, every overhang part of every seeded layer z has a    *)
(* contact node of layer z on it.                                          *)
(***************************************************************************)
EveryPartSeeded ==
    Seeded =>
        \A z \in SeededLayers : \A i \in DOMAIN OverhangParts(z) :
            \E n \in DOMAIN nodes :
                /\ nodes[n].layer_ = z
                /\ InsideBorder(OverhangParts(z)[i], nodes[n].position_)
\* seeding is over: one overhang part got its nodes from the grid and another
\* one, the grid giving none, the fallback node
EveryPartSeededWitness ==
    /\ Seeded
    /\ \E z \in SeededLayers : \E i \in DOMAIN OverhangParts(z) :
         GridNodes(OverhangParts(z)[i], z, 1) = <<>>
    /\ \E z \in SeededLayers : \E i \in DOMAIN OverhangParts(z) :
         GridNodes(OverhangParts(z)[i], z, 1) # <<>>

(***************************************************************************)
(* C10: a key that is in one of the three caches stays there with the same *)
(* polygon, whatever lookup is called next.                                *)
(***************************************************************************)
CacheStable ==
    [][ /\ \A k \in DOMAIN volumes_.collision_cache_ :
             /\ k \in DOMAIN volumes_'.collision_cache_
             /\ volumes_'.collision_cache_[k] = volumes_.collision_cache_[k]
        /\ \A k \in DOMAIN volumes_.avoidance_cache_ :
             /\ k \in DOMAIN volumes_'.avoidance_cache_
             /\ volumes_'.avoidance_cache_[k] = volumes_.avoidance_cache_[k]
        /\ \A k \in DOMAIN volumes_.internal_model_cache_ :
             /\ k \in DOMAIN volumes_'.internal_model_cache_
             /\ volumes_'.internal_model_cache_[k] = volumes_.internal_model_cache_[k] ]_vars
\* the three caches are filled for both radii, the avoidance cache for layer 0
\* and for a layer above it
CacheStableWitness ==
    /\ pc = "volumes"
    /\ \A radius \in QueryRadii :
         /\ <<radius, 0>> \in DOMAIN volumes_.avoidance_cache_
         /\ <<radius, 1>> \in DOMAIN volumes_.avoidance_cache_
         /\ <<radius, 1>> \in DOMAIN volumes_.collision_cache_
         /\ <<radius, 1>> \in DOMAIN volumes_.internal_model_cache_

(***************************************************************************)
(* C11: when two threads call collision, avoidance and internal_model at   *)
(* the same time, every key is written by one writer only: no thread       *)
(* inserts or assigns a key that is already in the cache, so that the      *)
(* assertion on ret.second holds.                                          *)
(***************************************************************************)
SingleWriter ==
    [][ \A t \in Threads :
          ThreadInsert(t) => TopKey(t) \notin DOMAIN CacheOf(volumes_, Top(t).fn) ]_vars

(***************************************************************************)
(* C12: the avoidance area of a radius at a layer above 0 is produced only *)
(* after that of the layer below: whenever the avoidance cache holds       *)
(* (r, z) it holds (r, z') for every layer z' below z, and the collision   *)
(* cache holds (r, z).                                                     *)
(***************************************************************************)
AvoidanceOrder ==
    \A k \in DOMAIN volumes_.avoidance_cache_ :
        /\ \A z \in 0 .. (k[2] - 1) : <<k[1], z>> \in DOMAIN volumes_.avoidance_cache_
        /\ k \in DOMAIN volumes_.collision_cache_
\* both radii have their avoidance area of a layer above 0
AvoidanceOrderWitness ==
    \A radius \in QueryRadii :
        \E k \in DOMAIN volumes_.avoidance_cache_ : k[1] = radius /\ k[2] > 0

(***************************************************************************)
(* C13: at every place that computes it, the maximum move distance is the  *)
(* largest coord_t when the support tree angle is 90 degrees or more, and  *)
(* tan(angle) * layer_height otherwise.                                    *)
(***************************************************************************)
MaxMoveLaw ==
    \A place \in DOMAIN moves :
        moves[place] = IF settings.support_tree_angle >= 90 THEN CoordMax
                       ELSE TanTimes(settings.support_tree_angle, settings.layer_height)

(***************************************************************************)
(* C14: when no contact node was generated, generateSupportAreas returns   *)
(* without setting storage.support.generated; the flag is set only in a    *)
(* run that had a contact node.                                            *)
(***************************************************************************)
GeneratedOnlyWithContacts == generated => ContactPoints # <<>>

(***************************************************************************)
(* C20: when dropNodes has returned, every node that can be reached from a *)
(* leaf it found without support, along parent links and merged            *)
(* neighbours, is out of its layer of contact_nodes, and no node that is   *)
(* left in contact_nodes has been deleted: the loop that deletes the       *)
(* contact nodes afterwards deletes no node twice.                         *)
(***************************************************************************)
\* the nodes reached from the nodes of S by parent and merged_neighbours
RECURSIVE BranchesOf(_)
BranchesOf(S) ==
    LET T == S \cup { nodes[n].parent : n \in { m \in S : nodes[m].parent # NULL } }
               \cup UNION { { nodes[n].merged_neighbours[i] :
                                i \in DOMAIN nodes[n].merged_neighbours } : n \in S }
    IN IF T = S THEN S ELSE BranchesOf(T)
PrunedBranchesGone ==
    /\ pc # "undefined"
    /\ pc = "old_drawCircles" =>
         LET left == UNION { contact_nodes[z] : z \in DOMAIN contact_nodes }
         IN /\ BranchesOf(unsupported) \cap left = {}
            /\ deleted \cap left = {}
\* dropNodes has returned after it pruned, and deleted, a branch with a
\* parent link and a merged neighbour
PrunedBranchesGoneWitness ==
    /\ pc = "old_drawCircles"
    /\ \E n \in BranchesOf(unsupported) :
          /\ nodes[n].parent # NULL
          /\ nodes[nodes[n].parent].merged_neighbours # <<>>
          /\ { n, nodes[n].parent, nodes[nodes[n].parent].merged_neighbours[1] }
                \subseteq deleted


(***************************************************************************)
(* C15: when the loop over the groups of processLayer is over, any two     *)
(* nodes of one group that are both still in trees_ stand in the order in  *)
(* which they were inserted into the forest.  dropNodes creates the nodes  *)
(* of a layer one after the other, so that order is the order of their     *)
(* addresses.                                                              *)
(***************************************************************************)
\* the loop over the groups has ended and trees_ still has its empty slots
GroupsDone == pc = "group" /\ it_s + 1 > Len(groups)
SurvivorsInOrder ==
    GroupsDone =>
        \A g \in 1 .. (Len(groups) - 1) :
            \A i, j \in groups[g] .. (groups[g + 1] - 1) :
                (i < j /\ trees_[i] # NULL /\ trees_[j] # NULL) => trees_[i] < trees_[j]


(***************************************************************************)
(* C16: a turn of the merge loop on a node with one spanning-tree          *)
(* neighbour merges exactly when the neighbour is strictly nearer than     *)
(* max_move and has one neighbour itself; the pair then leaves trees_ and  *)
(* one node at the midpoint of the two holds the children of both.  Any    *)
(* other such turn leaves the forest alone.                                *)
(***************************************************************************)
\* the node at it is a leaf of the spanning tree and the turn is defined
LeafTurn ==
    /\ pc = "merge"
    /\ it # GroupEnd
    /\ trees_[it] # NULL
    /\ Len(AdjacentNodes(mst, nodes[trees_[it]].position_)) = 1
\* the condition of the merge of a pair of leaves
LeafPair(pos, neighbour) ==
    /\ vSize(pos - neighbour) < params_.max_move
    /\ Len(AdjacentNodes(mst, neighbour)) = 1
LeafPairMerge ==
    [][ (LeafTurn /\ pc' = "merge") =>
          LET current_node == trees_[it]
              pos == nodes[current_node].position_
              neighbour == AdjacentNodes(mst, pos)[1]
              k == FindIf(neighbour)
          IN IF LeafPair(pos, neighbour)
             THEN /\ trees_'[it] = NULL
                  /\ trees_'[k] # trees_[k]
                  /\ \E m \in DOMAIN nodes' :
                       /\ nodes'[m].position_ = TruncDiv(pos + neighbour, 2)
                       /\ \A i \in DOMAIN nodes[current_node].children_ :
                            \E j \in DOMAIN nodes'[m].children_ :
                               nodes'[m].children_[j] = nodes[current_node].children_[i]
                       /\ \A i \in DOMAIN nodes[trees_[k]].children_ :
                            \E j \in DOMAIN nodes'[m].children_ :
                               nodes'[m].children_[j] = nodes[trees_[k]].children_[i]
             ELSE trees_' = trees_ /\ nodes' = nodes ]_vars


(***************************************************************************)
(* C17: a turn of the merge loop on a node with two or more spanning-tree  *)
(* neighbours absorbs every node of the group that stands at a neighbour   *)
(* within max_move, before or after it in trees_: the hub stays, its       *)
(* radius becomes the largest of its own and theirs, it holds its children *)
(* and all of theirs, the absorbed nodes leave trees_ and no other node    *)
(* does.                                                                   *)
(***************************************************************************)
\* the node at it is a hub of the spanning tree
HubTurn ==
    /\ pc = "merge"
    /\ it # GroupEnd
    /\ trees_[it] # NULL
    /\ Len(AdjacentNodes(mst, nodes[trees_[it]].position_)) >= 2
\* the nodes of the group at a neighbour of the hub within max_move
Absorbable ==
    LET pos == nodes[trees_[it]].position_
    IN { trees_[k] : k \in { k \in GroupStart .. (GroupEnd - 1) :
           /\ trees_[k] # NULL
           /\ IsNeighbor(AdjacentNodes(mst, pos), nodes[trees_[k]].position_)
           /\ vSize(nodes[trees_[k]].position_ - pos) <= params_.max_move } }
\* the nodes a vector of pointers holds
Held(seq) == { seq[k] : k \in DOMAIN seq } \ { NULL }
HubAbsorbs ==
    [][ HubTurn =>
          LET hub == trees_[it]
          IN /\ pc' = "merge"
             /\ Held(trees_') = Held(trees_) \ Absorbable
             /\ hub \in Held(trees_')
             /\ nodes'[hub].radius_ =
                  SetMax({ nodes[hub].radius_ } \cup { nodes[n].radius_ : n \in Absorbable })
             /\ Held(nodes'[hub].children_) =
                  Held(nodes[hub].children_)
                    \cup UNION { Held(nodes[n].children_) : n \in Absorbable } ]_vars
\* a hub has just absorbed a node that stood behind a node it left alone: the
\* child it took from it still names, as its parent, a node created after the
\* node that is next in trees_
HubAbsorbsWitness ==
    /\ pc = "merge"
    /\ it >= GroupStart + 2
    /\ it < GroupEnd
    /\ trees_[it] # NULL
    /\ trees_[it - 1] = NULL
    /\ trees_[it - 2] # NULL
    /\ Len(AdjacentNodes(mst, nodes[trees_[it - 2]].position_)) >= 2
    /\ \E c \in Held(nodes[trees_[it - 2]].children_) :
         /\ nodes[c].parent_ # trees_[it - 2]
         /\ nodes[c].parent_ > trees_[it]


(***************************************************************************)
(* C18: groupNodes returns iterators that cut trees_ into consecutive      *)
(* ranges, one for the nodes outside avoidance(0, layer) and one for each  *)
(* part of that area: the first range holds exactly the nodes that are not *)
(* inside the area, every other node is in the range of the part nearest   *)
(* to it, the first of the nearest ones, and trees_ holds the same nodes   *)
(* as before.                                                              *)
(***************************************************************************)
\* the index k of trees_ is in the range that starts at the i-th iterator
InRange(iters, i, k) == iters[i] <= k /\ k < iters[i + 1]
\* trees_ and the iterators after the call, trees and heap before it
Split(trees, heap, area, after, iters) ==
    LET parts == SplitIntoParts(area)
    IN /\ Len(iters) = Len(parts) + 3
       /\ iters[1] = 1
       /\ iters[Len(iters)] = Len(trees) + 1
       /\ \A i \in 1 .. (Len(iters) - 1) : iters[i] <= iters[i + 1]
       /\ Len(after) = Len(trees)
       /\ Held(after) = Held(trees)
       /\ \A k \in DOMAIN after :
            LET pos == heap[after[k]].position_
            IN IF ~InsideStrict(area, pos)
               THEN InRange(iters, 1, k)
               ELSE \E i \in DOMAIN parts :
                      /\ InRange(iters, i + 1, k)
                      /\ \A j \in DOMAIN parts :
                           /\ PartDist(parts[i], pos) <= PartDist(parts[j], pos)
                           /\ j < i => PartDist(parts[i], pos) < PartDist(parts[j], pos)
GroupNodesSplits ==
    [][ pc = "groupNodes" =>
          /\ pc' = "group"
          /\ Split(trees_, nodes,
                   AvoidanceOf(volumes_, 0, CurrentLayer(trees_, nodes)),
                   trees_', groups') ]_vars


(***************************************************************************)
(* C19: without can_support_on_model removeUnsupportableByBuildPlate       *)
(* returns with trees_ holding, in the same order, exactly the nodes that  *)
(* are not both inside avoidance(radius, layer) and further than max_move  *)
(* from its outline; the removed nodes are destroyed with all they own and *)
(* no other node changes.  With can_support_on_model nothing is removed.   *)
(***************************************************************************)
\* the nodes of trees_ the build plate cannot support
Unsupportable ==
    { trees_[k] : k \in { k \in DOMAIN trees_ :
        CannotEscape(AvoidanceOf(volumes_, nodes[trees_[k]].radius_,
                                 CurrentLayer(trees_, nodes)),
                     nodes[trees_[k]].position_) } }
RemovesExactly ==
    [][ pc = "removeUnsupportableByBuildPlate" =>
          /\ pc' = "groupNodes"
          /\ IF params_.can_support_on_model
             THEN trees_' = trees_ /\ nodes' = nodes
             ELSE /\ trees_' = SelectSeq(trees_, LAMBDA n : n \notin Unsupportable)
                  /\ nodes' = [ m \in (DOMAIN nodes)
                                        \ UNION { Owned(nodes, n) : n \in Unsupportable } |->
                                  nodes[m] ] ]_vars


(***************************************************************************)
(* C21: the loop of generateContactPoints visits exactly the layers z with *)
(* 1 <= z < n_layers - z_gap_layers, in this order and none when n_layers  *)
(* is not larger than z_gap_layers, and it reads no overhang entry at an   *)
(* index that is not below n_layers.                                       *)
(***************************************************************************)
SeedingVisits ==
    LET n_layers == sizes.overhang_areas_size
        z_gap_layers == SeedGapLayers(sizes)
    IN pc \in { "seed_loop", "seed_done", "undefined" } /\ sizes # <<>> =>
         /\ \A i \in DOMAIN visited :
              /\ visited[i] = i
              /\ visited[i] < n_layers - z_gap_layers
              /\ visited[i] + z_gap_layers < n_layers
         /\ pc = "seed_done" =>
              \A z \in 1 .. MaxOverhangLayers :
                  z < n_layers - z_gap_layers => z \in DOMAIN visited


(***************************************************************************)
(* C22: every contact node that generateContactPoints creates at layer z,  *)
(* from the grid or as the node added when the grid gave none, has the     *)
(* skin direction (z + z_distance_top_layers) mod 2.                       *)
(***************************************************************************)
\* generateContactPoints of cura::TreeSupport has just returned
OldSeeded == pc = "old_layer" /\ layer_nr = NLayers - 1 /\ to_free_node_set = {}
SkinDirectionLaw ==
    OldSeeded =>
        \A z \in DOMAIN contact_nodes : \A n \in contact_nodes[z] :
            nodes[n].skin_direction = (z + ZDistanceTopLayers) % 2


(***************************************************************************)
(* C23: insertDroppedNode adds no second node at a position the layer      *)
(* already holds a node at, so that no layer of contact_nodes ever holds   *)
(* two dropped nodes with the same position.                               *)
(***************************************************************************)
\* the nodes insertDroppedNode was called with: those that have a parent
Dropped(z) == { n \in contact_nodes[z] : nodes[n].parent # NULL }
OnePerPosition ==
    pc \in { "old_layer", "old_merge", "old_move", "old_prune" } =>
        \A z \in DOMAIN contact_nodes :
            \A n \in Dropped(z) : \A m \in contact_nodes[z] :
                n # m => nodes[n].position # nodes[m].position


(***************************************************************************)
(* C24: every radius that reaches ModelVolumes::collision, avoidance or    *)
(* internal_model is a multiple of the sample resolution (it was rounded   *)
(* to the nearest one), so that the keys of a cache that fall in the same  *)
(* bucket are one key.                                                     *)
(***************************************************************************)
\* values of the setting support_tree_collision_resolution
SampleResolutions == { 2, 3 }
\* std::round(radius / resolution) * resolution, for radius >= 0
RadiusSample(radius, resolution) ==
    ((2 * radius + resolution) \div (2 * resolution)) * resolution
CacheKeys ==
    DOMAIN volumes_.collision_cache_ \cup DOMAIN volumes_.avoidance_cache_
        \cup DOMAIN volumes_.internal_model_cache_
BucketedRadii ==
    \A resolution \in SampleResolutions :
        /\ \A k \in CacheKeys : k[1] = RadiusSample(k[1], resolution)
        /\ \A k, l \in DOMAIN volumes_.avoidance_cache_ :
               /\ k[2] = l[2]
               /\ RadiusSample(k[1], resolution) = RadiusSample(l[1], resolution)
               => k = l


(***************************************************************************)
(* C25: the parent references agree with the ownership: every node held    *)
(* in the children of a node n has n as its parent, after every step of    *)
(* dropNodes, Node::merge and processLayer.                                *)
(***************************************************************************)
ParentsConsistent ==
    pc # "undefined" =>
        \A n \in DOMAIN nodes : \A i \in DOMAIN nodes[n].children_ :
            LET c == nodes[n].children_[i]
            IN c \in DOMAIN nodes /\ nodes[c].parent_ = n


(***************************************************************************)
(* C26: no turn of the merge loop or of the move loop of processLayer      *)
(* reads through a slot of trees_ that has been emptied: neither the       *)
(* lookup of the neighbours of the current node, nor the search for the    *)
(* neighbour of a leaf, nor the predicate of the partition.                *)
(***************************************************************************)
LiveReadsOnly ==
    [][ (pc \in { "merge", "move" }) => (pc' # "undefined") ]_vars


(***************************************************************************)
(* C27: at every call of currentLayer both of its assertions hold: trees_  *)
(* is not empty and all its nodes are of one layer.  The calls are the one *)
(* of processLayer after dropNodes and those of groupNodes, which come     *)
(* after removeUnsupportableByBuildPlate has removed nodes.                *)
(***************************************************************************)
CurrentLayerCalled == pc \in { "removeUnsupportableByBuildPlate", "groupNodes" }
AssertionsHold ==
    CurrentLayerCalled =>
        /\ Len(trees_) # 0
        /\ \A i \in DOMAIN trees_ :
               /\ trees_[i] # NULL
               /\ nodes[trees_[i]].layer_ = nodes[trees_[1]].layer_


(***************************************************************************)
(* C28: in the merge pass of a layer of the older dropNodes a node is      *)
(* absorbed at most once: no node is in the merged_neighbours of two       *)
(* different nodes of the layer, in whatever order the group is iterated.  *)
(***************************************************************************)
MergedInto(n) == { nodes[n].merged_neighbours[i] : i \in DOMAIN nodes[n].merged_neighbours }
AbsorbedOnce ==
    pc # "undefined" =>
        \A z \in DOMAIN contact_nodes : \A a, b \in contact_nodes[z] :
            a # b => MergedInto(a) \cap MergedInto(b) = {}


(***************************************************************************)
(* C29: when drawCircles is over, layer_nr_max_filled_layer is the larger  *)
(* of its value before the call and the highest layer whose support is not *)
(* empty, however the iterations of the parallel loop interleave.          *)
(***************************************************************************)
FilledLayers == { z \in DrawLayers : support.filled[z] }
MaxFilledLayer ==
    pc = "draw_done" =>
        support.layer_nr_max_filled_layer = SetMax({ sizes.before } \cup FilledLayers)
\* two threads have each raised the value, the second above the first
MaxFilledLayerWitness ==
    /\ pc = "draw_done"
    /\ \E y, z \in FilledLayers :
         /\ visited[y] # visited[z]
         /\ sizes.before < y
         /\ y < z
    /\ support.layer_nr_max_filled_layer > sizes.before


(***************************************************************************)
(* C30: the older dropNodes processes the layers contact_nodes.size() - 1  *)
(* down to 1, each once, and reads no element outside contact_nodes; with  *)
(* no layer or a single one it processes none.                             *)
(***************************************************************************)
InDropLoop ==
    /\ "contact_nodes_size" \in DOMAIN sizes
    /\ pc \in { "drop_loop", "drop_done", "undefined" }
LayersTopDown ==
    InDropLoop =>
        /\ pc # "undefined"
        /\ \A i \in DOMAIN visited :
               /\ visited[i] = sizes.contact_nodes_size - i
               /\ visited[i] >= 1
        /\ pc = "drop_done" =>
               Len(visited) = Max(sizes.contact_nodes_size - 1, 0)

=============================================================================
